---- MODULE Spec2Model ----
(***************************************************************************)
(* A model of gitlab-runner-kubevirt: the identity digest (main.go), the   *)
(* instance locator and the resumable watch loop (run.go, FindJobVM and    *)
(* WatchJobVM), the prepare, run and cleanup stages.                       *)
(***************************************************************************)
EXTENDS Integers, Sequences, FiniteSets, TLC

\* ------------------------------------------------------------------ bounds
\* Events (and channel closures, and the deadline) the environment produces
\* during one WatchJobVM call.
MaxEnv == 3
\* Resource versions the control plane hands out: 1..MaxRV.
MaxRV == 2
\* Fields of a digest call, and bytes of a field.
MaxFields == 2
MaxStrLen == 2
\* Interfaces and conditions of an instance given to the readiness predicate.
MaxIfaces == 2
MaxConds == 2
\* Stage processes started for the job.
MaxInvocations == 3
\* Instances created for the job.
MaxCreated == 2
\* The time a stage is followed for, and the longest timeout of a stage.
MaxTime == 5
MaxTimeout == 3
\* Pieces of a script path.
MaxPieces == 3
\* Changes of the instance after cleanup has located it.
MaxLog == 3
\* Length of the value of an exit code variable.
MaxCodeLen == 3
\* Connection attempts of a DialSSH call that are kept in its log.
MaxAttempts == 3

\* ------------------------------------------------------- values and objects
\* opts.ResourceVersion is a string: "" (unset) is RVUnset, the resync
\* sentinel "0" is RVResync, any other version is a number 1..MaxRV.
RVUnset == -1
RVResync == 0

\* A nil *VirtualMachineInstance.
NilVMI == [kind |-> "nil"]

\* The *metav1.Status object of a watch.Error event.
StatusObj == [kind |-> "Status"]

IPs == {"", "10.0.0.1"}

CondReadyTrue == [type |-> "Ready", status |-> "True"]
CondReadyFalse == [type |-> "Ready", status |-> "False"]
CondPausedTrue == [type |-> "Paused", status |-> "True"]

\* A VirtualMachineInstance as the watch delivers it.
VMI(rv, phase, ifaces, conds) ==
    [kind |-> "VMI", rv |-> rv, phase |-> phase, ifaces |-> ifaces, conds |-> conds]

\* The instances the event stream of the watch specification carries.
WatchObjects ==
    { VMI(rv, "Pending", <<>>, <<>>) : rv \in 1..MaxRV }
    \cup { VMI(rv, "Running", <<"10.0.0.1">>, <<CondReadyFalse>>) : rv \in 1..MaxRV }
    \cup { VMI(rv, "Running", <<"10.0.0.1">>, <<CondPausedTrue, CondReadyTrue>>) : rv \in 1..MaxRV }

Event(type, object) == [type |-> type, object |-> object]

\* What a subscription's channel can carry: object events, a control-plane
\* error event, and an event with an empty kind.
WatchEvents ==
    { Event(t, o) : t \in {"ADDED", "MODIFIED", "DELETED"}, o \in WatchObjects }
    \cup { Event("ERROR", StatusObj), Event("", NilVMI) }

\* ---------------------------------------------------------------- state
VARIABLES
    wpc,        \* WatchJobVM: "idle", "subscribe" (top of outer), "select", "return"
    fn,         \* which callback WatchJobVM was given: "prepare", "cleanup", "other"
    initial,    \* WatchJobVM's initial (a VMI or NilVMI)
    optsRV,     \* opts.ResourceVersion
    ch,         \* the events buffered in the current subscription's channel
    chOpen,     \* whether that channel is still open
    opened,     \* subscriptions opened by this call (client.Watch that succeeded)
    stopped,    \* subscriptions stopped (the deferred w.Stop() calls that have run)
    ctxDone,    \* the caller's deadline has expired (ctx.Done() is ready)
    result,     \* "none" while running, else what WatchJobVM returned
    vm,         \* the vm variable the prepare callback assigns
    handled,    \* receives from the channel the loop has made
    rets,       \* what each callback invocation returned, in order
    lastCall,   \* the last callback invocation: kind, object, return
    hist,       \* history: the object seen last (initial as given, then each
                \* delivered object), the kind of the last receive, and whether
                \* an error event has reset the cursor since that object
    nEnv,       \* environment steps taken (bounded by MaxEnv)
    \* the identity digest
    dgA, dgB,   \* two ordered lists of string fields
    dgOut,      \* <<digest(dgA), digest(dgB)>> once computed, else <<>>
    \* the readiness predicate
    rdEt,       \* the kind of the event given to the prepare callback
    rdVM,       \* the instance given to the prepare callback
    rdOut,      \* what the callback returned, "none" before the call
    \* the control plane and the stage processes
    cp,         \* the instances the control plane holds (one namespace)
    created,    \* instances created so far (generateName makes each name new)
    nInv,       \* stage invocations so far (bounded by MaxInvocations)
    stage,      \* the running stage process: "none", "prepare", "run", "cleanup"
    pc,         \* where that process is
    jctx,       \* its JobContext
    prc,        \* the RunConfig argument of prepare
    lvm,        \* its local vm
    found,      \* what its FindJobVM call returned
    rrc,        \* the RunConfig run decoded from the annotation
    dialled,    \* the address and SSH configuration given to DialSSH
    invoked,    \* the stage started last
    lastExit,   \* how the last stage process ended: exit class and error
    reqs,       \* the requests the stage started last has issued, in order
    stderr,     \* the messages it has written to the standard error
    exited,     \* its os.Exit: the variable consulted, its value, the status
    \* envExit
    exIn,       \* the default status, the variable's name and its value
    exOut,      \* the status given to os.Exit and the report, <<>> before
    \* DialSSH
    dpc,        \* "idle", "top" (of the loop), "auth", "dial", "sleep", "return"
    dcfg,       \* the SSHConfig argument
    dctx,       \* ctx.Err(): NoErr until the context is done
    dlog,       \* the outcome of each connection attempt, in order
    dsleeps,    \* the back-off waits taken
    dresult,    \* what DialSSH returned: client and err
    dauth,      \* the authentication methods of the current attempt
    \* CreateJobVM
    crIn,       \* the JobContext argument
    crOut,      \* what CreateJobVM returned or submitted, <<>> before the call
    \* the deadlines of a stage
    ckStage,    \* the stage and its timeout: Timeout of prepare, RetryTimeout of run
    ckpc,       \* "start", "watch", "dial", "done"
    ckNow,      \* the time since the stage started
    ckCtxs,     \* the deadline of each context.WithTimeout context, in order
    ckWatch,    \* the context WatchJobVM was given, when, and how it ended
    ckDial,     \* the context DialSSH was given, when, and how it ended
    \* generateShellArgv
    avIn,       \* the shell and the script path
    avOut,      \* the argument vector, <<>> before the call
    \* the change history of the control plane
    elog        \* the changes of the job's instance since cleanup located it, in
                \* the order of their resource versions, and what the current
                \* subscription has been sent of them

watchVars ==
    <<wpc, fn, initial, optsRV, ch, chOpen, opened, stopped, ctxDone, result,
      vm, handled, rets, lastCall, hist, nEnv>>

digestVars == <<dgA, dgB, dgOut>>

readyVars == <<rdEt, rdVM, rdOut>>

lifeVars ==
    <<cp, created, nInv, stage, pc, jctx, prc, lvm, found, rrc, dialled, invoked,
      lastExit, reqs, stderr, exited>>

exitVars == <<exIn, exOut>>

dialVars == <<dpc, dcfg, dctx, dlog, dsleeps, dresult, dauth>>

createVars == <<crIn, crOut>>

clockVars == <<ckStage, ckpc, ckNow, ckCtxs, ckWatch, ckDial>>

argvVars == <<avIn, avOut>>

logVars == <<elog>>

vars ==
    <<watchVars, digestVars, readyVars, lifeVars, exitVars, dialVars, createVars,
      clockVars, argvVars, logVars>>

NoCall == [et |-> "none", object |-> NilVMI, ret |-> "nil"]

\* The parts of the state a specification does not use stay as they are here.
WatchIdle ==
    /\ wpc = "idle" /\ fn = "none" /\ initial = NilVMI /\ optsRV = RVUnset
    /\ ch = <<>> /\ chOpen = FALSE /\ opened = 0 /\ stopped = 0
    /\ ctxDone = FALSE /\ result = "none" /\ vm = NilVMI /\ handled = 0
    /\ rets = <<>> /\ lastCall = NoCall /\ nEnv = 0
    /\ hist = [seen |-> NilVMI, recv |-> "none", reset |-> FALSE]

DigestIdle == dgA = <<>> /\ dgB = <<>> /\ dgOut = <<>>

ReadyIdle == rdEt = "none" /\ rdVM = NilVMI /\ rdOut = "none"

\* No error (a nil error).
NoErr == [kind |-> "nil"]

\* The zero RunConfig.
ZeroRunConfig ==
    [Shell |-> "", Method |-> "",
     SSH |-> [Port |-> "", User |-> "", Password |-> "", PrivKey |-> ""]]

\* The zero JobContext.
ZeroJobContext ==
    [ID |-> "", Image |-> "", CPURequest |-> "", CPULimit |-> "",
     MemoryRequest |-> "", MemoryLimit |-> "",
     EphemeralStorageRequest |-> "", EphemeralStorageLimit |-> ""]

NoFind == [err |-> NoErr, vm |-> NilVMI]

Err(kind) == [kind |-> kind]

NoExit == [class |-> "none", err |-> NoErr]

\* No os.Exit yet.
NoOsExit == [var |-> "", value |-> <<>>, code |-> -1]

NoDial == [ip |-> "", ssh |-> ZeroRunConfig.SSH]

\* The locals of a stage process that is not running.
NoLocals ==
    /\ jctx = ZeroJobContext /\ prc = ZeroRunConfig /\ lvm = NilVMI
    /\ found = NoFind /\ rrc = ZeroRunConfig /\ dialled = NoDial

LifeIdle ==
    /\ cp = {} /\ created = 0 /\ nInv = 0 /\ stage = "none" /\ pc = "idle"
    /\ NoLocals /\ invoked = "none" /\ lastExit = NoExit
    /\ reqs = <<>> /\ stderr = <<>> /\ exited = NoOsExit

ExitIdle == exIn = <<>> /\ exOut = <<>>

DialIdle ==
    /\ dpc = "idle" /\ dcfg = ZeroRunConfig.SSH /\ dctx = NoErr /\ dlog = <<>>
    /\ dsleeps = 0 /\ dresult = <<>> /\ dauth = <<>>

CreateIdle == crIn = ZeroJobContext /\ crOut = <<>>

ClockIdle ==
    /\ ckStage = [stage |-> "none", timeout |-> 0]
    /\ ckpc = "idle" /\ ckNow = 0 /\ ckCtxs = <<>>
    /\ ckWatch = <<>> /\ ckDial = <<>>

ArgvIdle == avIn = [shell |-> "", script |-> <<>>] /\ avOut = <<>>

NoLog == [base |-> RVUnset, events |-> <<>>, removedAt |-> -1, sent |-> RVUnset, sentSub |-> 0]

LogIdle == elog = NoLog

\* The parts of the state no specification but one uses.
RestIdle == ClockIdle /\ ArgvIdle /\ LogIdle

\* ------------------------------------------------------------- callbacks
\* src/run.go:669: no first interface, or the first interface has no address.
NoIP(v) == Len(v.ifaces) = 0 \/ v.ifaces[1] = ""

\* HasReadyCondition looking at the first condition only.
HasReadyCondition_FirstOnly(v) ==
    Len(v.conds) >= 1 /\ v.conds[1].type = "Ready" /\ v.conds[1].status = "True"

\* src/run.go:672-676: some condition is Ready/True.
HasReadyCondition(v) ==
    \E i \in 1..Len(v.conds) : v.conds[i].type = "Ready" /\ v.conds[i].status = "True"

\* The readiness predicate of the prepare callback (src/run.go:669-677).
IsReady(v) == ~NoIP(v) /\ HasReadyCondition(v)

\* PrepareFn with the deletion policy: a stream error ends the wait.
PrepareFn_ErrorTerminal(et, val) ==
    IF et = "ERROR" THEN {"ErrWatchDone"}
    ELSE IF IsReady(val) THEN {"ErrWatchDone"} ELSE {"nil"}

\* The callback of PrepareCmd.Run (src/run.go:663-678): the set of values it
\* can return for an event.
PrepareFn(et, val) ==
    IF et = "ERROR" THEN {"nil"}
    ELSE IF IsReady(val) THEN {"ErrWatchDone"} ELSE {"nil"}

\* CleanupFn with the provisioning policy: a stream error is retried.
CleanupFn_ErrorRetried(et, val) ==
    IF et = "DELETED" THEN {"ErrWatchDone"} ELSE {"nil"}

\* CleanupFn ending the wait on an update of the instance as well.
CleanupFn_DoneOnModified(et, val) ==
    IF et \in {"ERROR", "DELETED", "MODIFIED"} THEN {"ErrWatchDone"} ELSE {"nil"}

\* The callback of CleanupCmd.Run (src/cleanup.go:53-65).
CleanupFn(et, val) ==
    IF et \in {"ERROR", "DELETED"} THEN {"ErrWatchDone"} ELSE {"nil"}

\* Any other callback a caller may pass: continue, done, or an error of its own.
OtherFn(et, val) == {"nil", "ErrWatchDone", "ErrCallback"}

FnReturns(f, et, val) ==
    CASE f = "prepare" -> PrepareFn(et, val)
      [] f = "cleanup" -> CleanupFn(et, val)
      [] OTHER -> OtherFn(et, val)

\* The prepare callback assigns vm = val on every event but an error event.
VmAfter(f, et, val) == IF f = "prepare" /\ et # "ERROR" THEN val ELSE vm

\* ReturnOf turning every callback error into success.
ReturnOf_SwallowsError(ret) == "ok"

\* src/run.go:553-556 and 567-570: ErrWatchDone becomes nil (success), any
\* other error is returned as it is.
ReturnOf(ret) == IF ret = "ErrWatchDone" THEN "ok" ELSE ret

\* ------------------------------------------------------------ WatchJobVM
\* WatchReturn stopping the current subscription only.
WatchReturn_StopsCurrentOnly(r) ==
    /\ result' = r
    /\ wpc' = "return"
    /\ stopped' = IF opened > 0 THEN 1 ELSE 0

\* A return of WatchJobVM: the deferred w.Stop() of every subscription opened
\* so far runs (src/run.go:537).
WatchReturn(r) ==
    /\ result' = r
    /\ wpc' = "return"
    /\ stopped' = opened

\* WSubscribe naming no resource version.
WSubscribe_NoCursor ==
    /\ wpc = "subscribe"
    /\ optsRV' = optsRV
    /\ \/ /\ opened' = opened + 1
          /\ ch' = <<>>
          /\ chOpen' = TRUE
          /\ wpc' = "select"
          /\ UNCHANGED <<result, stopped>>
       \/ /\ WatchReturn("WatchError")
          /\ UNCHANGED <<opened, ch, chOpen>>
    /\ UNCHANGED <<fn, initial, ctxDone, vm, handled, rets, lastCall, hist, nEnv>>
    /\ UNCHANGED <<digestVars, readyVars, lifeVars, exitVars, dialVars, createVars,
                   clockVars, argvVars, logVars>>

\* src/run.go:529-539: the top of the outer loop. The cursor is taken from
\* initial when there is one, and a subscription is requested; the request
\* can fail, and then WatchJobVM returns the error.
WSubscribe ==
    /\ wpc = "subscribe"
    /\ optsRV' = IF initial # NilVMI THEN initial.rv ELSE optsRV
    /\ \/ /\ opened' = opened + 1
          /\ ch' = <<>>
          /\ chOpen' = TRUE
          /\ wpc' = "select"
          /\ UNCHANGED <<result, stopped>>
       \/ /\ WatchReturn("WatchError")
          /\ UNCHANGED <<opened, ch, chOpen>>
    /\ UNCHANGED <<fn, initial, ctxDone, vm, handled, rets, lastCall, hist, nEnv>>
    /\ UNCHANGED <<digestVars, readyVars, lifeVars, exitVars, dialVars, createVars,
                   clockVars, argvVars, logVars>>

\* RecvClosedOrEmpty surfacing the closure as an error.
RecvClosedOrEmpty_ReturnsError ==
    /\ WatchReturn("ChannelClosed")
    /\ UNCHANGED <<initial, vm, rets, lastCall>>

\* src/run.go:545-547: the channel is closed, or the event has no kind:
\* continue outer.
RecvClosedOrEmpty ==
    /\ wpc' = "subscribe"
    /\ UNCHANGED <<initial, result, stopped, vm, rets, lastCall>>

\* src/run.go:548-560: a control-plane error event. The callback is called
\* with the kind and nil; if it returns nil, initial.ResourceVersion = "0"
\* (a nil initial is dereferenced there) and continue outer.
RecvError(event) ==
    IF event.object.kind # "Status"
    THEN /\ WatchReturn("panic")
         /\ UNCHANGED <<initial, vm, rets, lastCall>>
    ELSE \E ret \in FnReturns(fn, event.type, NilVMI) :
            /\ rets' = Append(rets, ret)
            /\ lastCall' = [et |-> event.type, object |-> NilVMI, ret |-> ret]
            /\ IF ret # "nil"
               THEN /\ WatchReturn(ReturnOf(ret))
                    /\ UNCHANGED <<initial, vm>>
               ELSE IF initial = NilVMI
               THEN /\ WatchReturn("panic")
                    /\ UNCHANGED <<initial, vm>>
               ELSE /\ initial' = [initial EXCEPT !.rv = RVResync]
                    \* in prepare, vm and initial are the same object
                    /\ vm' = IF fn = "prepare" THEN initial' ELSE vm
                    /\ wpc' = "subscribe"
                    /\ UNCHANGED <<result, stopped>>

\* RecvObject leaving the cursor where it was.
RecvObject_KeepsCursor(event) ==
    IF event.object.kind # "VMI"
    THEN /\ WatchReturn("panic")
         /\ UNCHANGED <<initial, vm, rets, lastCall>>
    ELSE \E ret \in FnReturns(fn, event.type, event.object) :
            /\ rets' = Append(rets, ret)
            /\ lastCall' = [et |-> event.type, object |-> event.object, ret |-> ret]
            /\ vm' = VmAfter(fn, event.type, event.object)
            /\ IF ret # "nil"
               THEN /\ WatchReturn(ReturnOf(ret))
                    /\ UNCHANGED initial
               ELSE UNCHANGED <<initial, wpc, result, stopped>>

\* src/run.go:562-572: a created, updated or deleted event. The callback is
\* called with the kind and the object; if it returns nil, initial = val.
RecvObject(event) ==
    IF event.object.kind # "VMI"
    THEN /\ WatchReturn("panic")
         /\ UNCHANGED <<initial, vm, rets, lastCall>>
    ELSE \E ret \in FnReturns(fn, event.type, event.object) :
            /\ rets' = Append(rets, ret)
            /\ lastCall' = [et |-> event.type, object |-> event.object, ret |-> ret]
            /\ vm' = VmAfter(fn, event.type, event.object)
            /\ IF ret # "nil"
               THEN /\ WatchReturn(ReturnOf(ret))
                    /\ UNCHANGED initial
               ELSE /\ initial' = event.object
                    /\ UNCHANGED <<wpc, result, stopped>>

\* src/run.go:541-572: the select takes the channel case. A closed channel is
\* always ready; an open one is ready when an event is waiting.
WRecv ==
    /\ wpc = "select"
    /\ ch # <<>> \/ ~chOpen
    /\ handled' = handled + 1
    /\ IF ch = <<>>
       THEN RecvClosedOrEmpty /\ UNCHANGED ch
       ELSE /\ ch' = Tail(ch)
            /\ IF Head(ch).type = "" THEN RecvClosedOrEmpty
               ELSE IF Head(ch).type = "ERROR" THEN RecvError(Head(ch))
               ELSE RecvObject(Head(ch))
    /\ hist' = IF ch = <<>> THEN [hist EXCEPT !.recv = "closed"]
               ELSE IF Head(ch).type = "" THEN [hist EXCEPT !.recv = "empty"]
               ELSE IF Head(ch).type = "ERROR"
               THEN [hist EXCEPT !.recv = "error",
                                 !.reset = @ \/ (wpc' = "subscribe")]
               ELSE IF Head(ch).object.kind = "VMI"
               THEN [seen |-> Head(ch).object, recv |-> "object", reset |-> FALSE]
               ELSE [hist EXCEPT !.recv = "object"]
    /\ UNCHANGED <<fn, optsRV, chOpen, opened, ctxDone, nEnv>>
    /\ UNCHANGED <<digestVars, readyVars, lifeVars, exitVars, dialVars, createVars,
                   clockVars, argvVars, logVars>>

\* src/run.go:573-574: the select takes the ctx.Done() case. When the channel
\* case is ready too, Go chooses between the two at random.
WTimeout ==
    /\ wpc = "select"
    /\ ctxDone
    /\ WatchReturn("DeadlineExceeded")
    /\ UNCHANGED <<fn, initial, optsRV, ch, chOpen, opened, ctxDone, vm, handled,
                   rets, lastCall, hist, nEnv>>
    /\ UNCHANGED <<digestVars, readyVars, lifeVars, exitVars, dialVars, createVars,
                   clockVars, argvVars, logVars>>

\* ------------------------------------------- the environment of a watch
\* The control plane sends an event on the open subscription.
EnvEvent ==
    /\ result = "none" /\ wpc = "select" /\ chOpen /\ ch = <<>>
    /\ nEnv < MaxEnv
    /\ \E e \in WatchEvents : ch' = <<e>>
    /\ nEnv' = nEnv + 1
    /\ UNCHANGED <<wpc, fn, initial, optsRV, chOpen, opened, stopped, ctxDone,
                   result, vm, handled, rets, lastCall, hist>>
    /\ UNCHANGED <<digestVars, readyVars, lifeVars, exitVars, dialVars, createVars,
                   clockVars, argvVars, logVars>>

\* The connection breaks and the watch instance closes its channel.
EnvClose ==
    /\ result = "none" /\ wpc = "select" /\ chOpen
    /\ nEnv < MaxEnv
    /\ chOpen' = FALSE
    /\ nEnv' = nEnv + 1
    /\ UNCHANGED <<wpc, fn, initial, optsRV, ch, opened, stopped, ctxDone,
                   result, vm, handled, rets, lastCall, hist>>
    /\ UNCHANGED <<digestVars, readyVars, lifeVars, exitVars, dialVars, createVars,
                   clockVars, argvVars, logVars>>

\* The caller's deadline (context.WithTimeout) expires.
EnvExpire ==
    /\ result = "none" /\ ~ctxDone
    /\ ctxDone' = TRUE
    /\ UNCHANGED <<wpc, fn, initial, optsRV, ch, chOpen, opened, stopped,
                   result, vm, handled, rets, lastCall, hist, nEnv>>
    /\ UNCHANGED <<digestVars, readyVars, lifeVars, exitVars, dialVars, createVars,
                   clockVars, argvVars, logVars>>

\* ------------------------------------------------ the watch specification
\* WatchJobVM as prepare calls it (with the created instance), as cleanup
\* calls it (with the located instance), and with any other callback, with
\* or without an initial object.
WatchCalls ==
    { <<"prepare", VMI(rv, "Pending", <<>>, <<>>)>> : rv \in 1..MaxRV }
    \cup { <<"cleanup", o>> : o \in WatchObjects }
    \cup { <<"other", o>> : o \in WatchObjects \cup {NilVMI} }

InitWatch ==
    /\ \E c \in WatchCalls :
          /\ fn = c[1]
          /\ initial = c[2]
          /\ vm = IF c[1] = "prepare" THEN c[2] ELSE NilVMI
    /\ wpc = "subscribe"
    /\ optsRV = RVUnset
    /\ ch = <<>>
    /\ chOpen = FALSE
    /\ opened = 0
    /\ stopped = 0
    /\ ctxDone = FALSE
    /\ result = "none"
    /\ handled = 0
    /\ rets = <<>>
    /\ lastCall = NoCall
    /\ hist = [seen |-> initial, recv |-> "none", reset |-> FALSE]
    /\ nEnv = 0
    /\ DigestIdle
    /\ ReadyIdle
    /\ LifeIdle
    /\ ExitIdle
    /\ DialIdle
    /\ CreateIdle
    /\ RestIdle

NextWatch ==
    \/ WSubscribe
    \/ WRecv
    \/ WTimeout
    \/ EnvEvent
    \/ EnvClose
    \/ EnvExpire

SpecWatch == InitWatch /\ [][NextWatch]_vars

\* ---------------------------------------------------------------- digest
\* The bytes of the fields: "a", "b", "c".
Bytes == {97, 98, 99}

SeqsUpTo(S, n) == UNION { [1..k -> S] : k \in 0..n }

Strings == SeqsUpTo(Bytes, MaxStrLen)

\* The argument lists of digest: 1..MaxFields string fields.
FieldLists == SeqsUpTo(Strings, MaxFields) \ {<<>>}

\* The kinds encoding/binary can size: the fixed-size ones. Go's int (the type
\* of len) is not among them.
FixedSize(kind) ==
    CASE kind \in {"int8", "uint8", "bool"} -> 1
      [] kind \in {"int16", "uint16"} -> 2
      [] kind \in {"int32", "uint32", "float32"} -> 4
      [] kind \in {"int64", "uint64", "float64"} -> 8
      [] OTHER -> 0

\* n as width big-endian bytes.
RECURSIVE BigEndian(_, _)
BigEndian(n, width) ==
    IF width = 0 THEN <<>>
    ELSE Append(BigEndian(n \div 256, width - 1), n % 256)

\* binary.Write(digest, binary.BigEndian, n) with n of the given kind: the
\* bytes the hash receives. A value that is not fixed-size is refused with an
\* error (which digest drops) and nothing is written.
BinaryWrite(kind, n) ==
    IF FixedSize(kind) = 0 THEN <<>> ELSE BigEndian(n, FixedSize(kind))

\* src/main.go:87, 91: the values written are len(v) and len(e), of type int.
LenKind == "int"

RECURSIVE HashInputFrom(_, _)
HashInputFrom(v, i) ==
    IF i > Len(v) THEN <<>>
    ELSE BinaryWrite(LenKind, Len(v[i])) \o v[i] \o HashInputFrom(v, i + 1)

\* src/main.go:86-99: every byte the hash is fed, in order.
HashInput(v) == BinaryWrite(LenKind, Len(v)) \o HashInputFrom(v, 1)

\* src/main.go:85-101: the hexadecimal SHA-1 of the bytes fed; the hash is
\* taken as ideal: two digests are equal exactly when the bytes fed are.
digest(v) == [sha1 |-> HashInput(v)]

DigestCall ==
    /\ dgOut = <<>>
    /\ dgOut' = <<digest(dgA), digest(dgB)>>
    /\ UNCHANGED <<dgA, dgB>>
    /\ UNCHANGED <<watchVars, readyVars, lifeVars, exitVars, dialVars, createVars,
                   clockVars, argvVars, logVars>>

InitDigest ==
    /\ dgA \in FieldLists
    /\ dgB \in FieldLists
    /\ dgOut = <<>>
    /\ WatchIdle
    /\ ReadyIdle
    /\ LifeIdle
    /\ ExitIdle
    /\ DialIdle
    /\ CreateIdle
    /\ RestIdle

NextDigest == DigestCall

SpecDigest == InitDigest /\ [][NextDigest]_vars

\* C2: two lists of fields that differ, in a field or in the field
\* boundaries, are fed to the hash as different bytes and get different
\* identities.
C2_DigestSeparatesFields ==
    (dgOut # <<>> /\ dgA # dgB)
        => (HashInput(dgA) # HashInput(dgB) /\ dgOut[1] # dgOut[2])

\* ------------------------------------------------------------- readiness
IfaceLists == SeqsUpTo(IPs, MaxIfaces)

CondLists == SeqsUpTo({CondReadyTrue, CondReadyFalse, CondPausedTrue}, MaxConds)

\* src/run.go:663-678: the prepare callback is called with an object event.
ReadyCall ==
    /\ rdOut = "none"
    /\ \E ret \in PrepareFn(rdEt, rdVM) : rdOut' = ret
    /\ UNCHANGED <<rdEt, rdVM>>
    /\ UNCHANGED <<watchVars, digestVars, lifeVars, exitVars, dialVars, createVars,
                   clockVars, argvVars, logVars>>

InitReady ==
    /\ rdEt \in {"ADDED", "MODIFIED", "DELETED"}
    /\ \E i \in IfaceLists, c \in CondLists : rdVM = VMI(1, "Running", i, c)
    /\ rdOut = "none"
    /\ WatchIdle
    /\ DigestIdle
    /\ LifeIdle
    /\ ExitIdle
    /\ DialIdle
    /\ CreateIdle
    /\ RestIdle

NextReady == ReadyCall

SpecReady == InitReady /\ [][NextReady]_vars

\* C8 as stated: ready exactly when some interface has an address and some
\* condition is Ready/True.
C8_ReadyIffAnyAddressAndReady ==
    rdOut # "none" =>
        ((rdOut = "ErrWatchDone") <=>
            /\ \E i \in 1..Len(rdVM.ifaces) : rdVM.ifaces[i] # ""
            /\ \E j \in 1..Len(rdVM.conds) : rdVM.conds[j] = CondReadyTrue)

\* C8 as amended: ready exactly when the first interface has an address and
\* some condition, at any place of the list, is Ready/True.
C8_ReadyIffFirstAddressAndReady ==
    rdOut # "none" =>
        ((rdOut = "ErrWatchDone") <=>
            /\ Len(rdVM.ifaces) >= 1 /\ rdVM.ifaces[1] # ""
            /\ \E j \in 1..Len(rdVM.conds) : rdVM.conds[j] = CondReadyTrue)

\* Not ready: the condition holds and the second interface has an address,
\* but the first has none.
C8_Witness ==
    /\ rdOut = "nil"
    /\ rdVM.ifaces = <<"", "10.0.0.1">>
    /\ rdVM.conds = <<CondPausedTrue, CondReadyTrue>>

\* ---------------------------------------------------- claims on the watch
\* The cursor the next subscription starts from.
Cursor == IF initial # NilVMI THEN initial.rv ELSE optsRV

\* The loop receives an event (or the closure) from the channel.
RecvStep == handled' = handled + 1

LastRet == rets[Len(rets)]

\* C3: during provisioning a control-plane error event does not end the wait:
\* the callback is called with the error kind and a nil object, the cursor is
\* reset to "0", the loop goes back to subscribe and the next subscription
\* starts from "0"; prepare's watch succeeds only on a ready instance.
C3_ProvisioningErrorRecoverable ==
    /\ [][(fn = "prepare" /\ RecvStep /\ ch # <<>> /\ Head(ch).type = "ERROR")
            => /\ lastCall' = [et |-> "ERROR", object |-> NilVMI, ret |-> "nil"]
               /\ Len(rets') = Len(rets) + 1
               /\ initial'.rv = RVResync
               /\ wpc' = "subscribe"
               /\ result' = "none"]_vars
    /\ [][(fn = "prepare" /\ lastCall.et = "ERROR" /\ opened' = opened + 1)
            => optsRV' = RVResync]_vars
    /\ []((fn = "prepare" /\ result = "ok")
            => (lastCall.et # "ERROR" /\ IsReady(lastCall.object)))

\* Prepare's watch has resubscribed from "0" after an error event and waits.
C3_Witness ==
    /\ fn = "prepare" /\ lastCall.et = "ERROR" /\ lastCall.object = NilVMI
    /\ wpc = "select" /\ opened >= 2 /\ optsRV = RVResync /\ result = "none"

\* C4: during deletion a control-plane error event makes the watch return
\* success at once, with no further subscription, whether or not a deletion
\* event was seen.
C4_DeletionErrorTerminal ==
    /\ [][(fn = "cleanup" /\ RecvStep /\ ch # <<>> /\ Head(ch).type = "ERROR")
            => /\ result' = "ok"
               /\ wpc' = "return"
               /\ opened' = opened
               /\ lastCall'.et = "ERROR"]_vars
    /\ [][wpc = "return" => opened' = opened]_vars

\* Cleanup's watch returned success on an error event, its only callback call
\* (so no deletion event was observed), from its first subscription.
C4_Witness ==
    /\ fn = "cleanup" /\ result = "ok" /\ lastCall.et = "ERROR"
    /\ rets = <<"ErrWatchDone">> /\ opened = 1

\* C5: a closed channel or an event with an empty kind calls no callback and
\* returns nothing: the loop goes back to subscribe with the cursor unchanged,
\* and the next subscription starts from that cursor, whatever the callback.
C5_TransportNoiseAbsorbed ==
    /\ [][(RecvStep /\ (ch = <<>> \/ Head(ch).type = ""))
            => /\ rets' = rets
               /\ lastCall' = lastCall
               /\ result' = "none"
               /\ wpc' = "subscribe"
               /\ Cursor' = Cursor]_vars
    /\ [][opened' = opened + 1 => optsRV' = Cursor]_vars

\* The loop has resubscribed twice (a closure, an empty event) from the
\* initial object's version without ever calling the callback.
C5_Witness ==
    /\ handled >= 2 /\ opened >= 3 /\ rets = <<>> /\ result = "none"
    /\ wpc = "select" /\ initial # NilVMI /\ optsRV = initial.rv /\ optsRV >= 1

\* C6: once the deadline has expired the loop receives nothing more from the
\* channel and does not return success.
C6_DeadlineAbortsWhateverInFlight ==
    [][(ctxDone /\ result = "none") => (handled' = handled /\ result' # "ok")]_vars

\* C7: WatchJobVM returns success exactly when the callback returned
\* ErrWatchDone, returns any other callback error as it is, and every callback
\* call but the last returned nil (no call follows a done or an error).
C7_ReturnFollowsCallback ==
    /\ (result = "ok") <=> (rets # <<>> /\ LastRet = "ErrWatchDone")
    /\ (rets # <<>> /\ LastRet \notin {"nil", "ErrWatchDone"})
          => (result = LastRet /\ wpc = "return")
    /\ \A i \in 1..(Len(rets) - 1) : rets[i] = "nil"

\* The callback continued once and then returned an error of its own.
C7_Witness == result = "ErrCallback" /\ Len(rets) >= 2 /\ wpc = "return"

\* --------------------------------------------------------------- envExit
\* A string is the sequence of its characters.
ExitChars == {"-", "+", "1", "7", "x"}

\* The values an exit code variable may hold; the empty string is also what
\* os.Getenv returns for a variable that is not set.
ExitCodeStrings == SeqsUpTo(ExitChars, MaxCodeLen)

DigitValue(c) == CASE c = "1" -> 1 [] c = "7" -> 7 [] OTHER -> -1

\* The decimal digits of str read from the left, acc being the value so far.
RECURSIVE Digits(_, _)
Digits(str, acc) ==
    IF str = <<>> THEN [ok |-> TRUE, val |-> acc]
    ELSE IF DigitValue(Head(str)) < 0 THEN [ok |-> FALSE, val |-> 0]
    ELSE Digits(Tail(str), 10 * acc + DigitValue(Head(str)))

\* strconv.Atoi: an optional sign followed by at least one decimal digit.
Atoi(str) ==
    IF str = <<>> THEN [ok |-> FALSE, val |-> 0]
    ELSE IF Head(str) \in {"-", "+"}
    THEN IF Tail(str) = <<>> THEN [ok |-> FALSE, val |-> 0]
         ELSE LET d == Digits(Tail(str), 0)
              IN  [ok |-> d.ok, val |-> IF d.ok /\ Head(str) = "-" THEN 0 - d.val ELSE d.val]
    ELSE Digits(str, 0)

\* envExit giving os.Exit the value Atoi left in val when it failed.
envExit_InvalidIsZero(status, env, code) ==
    IF code # <<>>
    THEN [status |-> Atoi(code).val,
          report |-> IF Atoi(code).ok THEN <<>>
                     ELSE <<[kind |-> "InvalidExitCode", env |-> env, value |-> code]>>]
    ELSE [status |-> status, report |-> <<>>]

\* src/main.go:103-113: envExit with code the value of os.Getenv(env): the
\* status given to os.Exit and what is written to the standard error.
envExit(status, env, code) ==
    IF code # <<>>
    THEN IF ~Atoi(code).ok
         THEN [status |-> status,
               report |-> <<[kind |-> "InvalidExitCode", env |-> env, value |-> code]>>]
         ELSE [status |-> Atoi(code).val, report |-> <<>>]
    ELSE [status |-> status, report |-> <<>>]

\* src/main.go:115-117, for an environment (variable name -> value).
systemFailureExit(environ) ==
    envExit(2, "SYSTEM_FAILURE_EXIT_CODE", environ["SYSTEM_FAILURE_EXIT_CODE"])

\* src/main.go:119-121.
buildFailureExit(environ) ==
    envExit(1, "BUILD_FAILURE_EXIT_CODE", environ["BUILD_FAILURE_EXIT_CODE"])

\* The exit of a failure class.
FailureExit(class, environ) ==
    IF class = "build" THEN buildFailureExit(environ) ELSE systemFailureExit(environ)

ExitVarOf(class) ==
    IF class = "build" THEN "BUILD_FAILURE_EXIT_CODE" ELSE "SYSTEM_FAILURE_EXIT_CODE"

\* The environments of a process: every value for one of the two variables,
\* the other one unset or set.
Environs ==
    { [n \in {"SYSTEM_FAILURE_EXIT_CODE", "BUILD_FAILURE_EXIT_CODE"} |->
          IF n = var THEN value ELSE other]
      : var \in {"SYSTEM_FAILURE_EXIT_CODE", "BUILD_FAILURE_EXIT_CODE"},
        value \in ExitCodeStrings, other \in {<<>>, <<"7">>} }

\* A failing process calls the exit of its failure class.
ExitCall ==
    /\ exOut = <<>>
    /\ exOut' = <<FailureExit(exIn.class, exIn.environ)>>
    /\ UNCHANGED exIn
    /\ UNCHANGED <<watchVars, digestVars, readyVars, lifeVars, dialVars, createVars,
                   clockVars, argvVars, logVars>>

InitExit ==
    /\ exIn \in [class : {"system", "build"}, environ : Environs]
    /\ exOut = <<>>
    /\ WatchIdle
    /\ DigestIdle
    /\ ReadyIdle
    /\ LifeIdle
    /\ DialIdle
    /\ CreateIdle
    /\ RestIdle

NextExit == ExitCall

SpecExit == InitExit /\ [][NextExit]_vars

\* A decimal integer as a text: an optional sign, then digits only.
IsInteger(str) ==
    /\ str # <<>>
    /\ LET body == IF Head(str) \in {"-", "+"} THEN Tail(str) ELSE str
       IN  body # <<>> /\ \A i \in 1..Len(body) : body[i] \in {"1", "7"}

RECURSIVE Pow10(_)
Pow10(n) == IF n = 0 THEN 1 ELSE 10 * Pow10(n - 1)

RECURSIVE SumDigits(_, _)
SumDigits(body, i) ==
    IF i > Len(body) THEN 0
    ELSE DigitValue(body[i]) * Pow10(Len(body) - i) + SumDigits(body, i + 1)

\* The number an integer text denotes.
IntegerOf(str) ==
    LET body == IF Head(str) \in {"-", "+"} THEN Tail(str) ELSE str
    IN  IF Head(str) = "-" THEN 0 - SumDigits(body, 1) ELSE SumDigits(body, 1)

\* C18: the status of the exit of a failure class is the value of the class's
\* variable when that is a valid integer, and the default of the class (2
\* for a system failure, 1 for a build failure) when it is unset, empty or
\* not an integer; an invalid value is reported, and only an invalid value.
C18_ExitCodeOverride ==
    exOut # <<>> =>
        LET value == exIn.environ[ExitVarOf(exIn.class)]
            default == IF exIn.class = "system" THEN 2 ELSE 1
        IN  /\ IsInteger(value) => exOut[1] = [status |-> IntegerOf(value), report |-> <<>>]
            /\ value = <<>> => exOut[1] = [status |-> default, report |-> <<>>]
            /\ (value # <<>> /\ ~IsInteger(value))
                  => /\ exOut[1].status = default
                     /\ exOut[1].report =
                           <<[kind |-> "InvalidExitCode", env |-> ExitVarOf(exIn.class),
                              value |-> value]>>

\* A build failure has exited with the default while its variable holds a
\* text that is not an integer and the other variable holds a valid one.
C18_Witness ==
    /\ exOut # <<>>
    /\ exIn.class = "build"
    /\ exIn.environ["BUILD_FAILURE_EXIT_CODE"] = <<"7", "x">>
    /\ exIn.environ["SYSTEM_FAILURE_EXIT_CODE"] = <<"7">>
    /\ exOut[1].status = 1 /\ exOut[1].report # <<>>

\* --------------------------------------------------------------- DialSSH
\* What an attempt (sshclient.Dial) can return as its error: nil, a
\* *net.OpError of the dial step (refused, unreachable, timed out), a
\* *net.OpError of a later step, a rejected authentication, a failed
\* handshake.
DialErr == [kind |-> "OpError", Op |-> "dial"]
ReadErr == [kind |-> "OpError", Op |-> "read"]
AttemptErrors ==
    {NoErr, DialErr, ReadErr, [kind |-> "AuthRejected"], [kind |-> "HandshakeFailed"]}

\* What reading and parsing the private key file can give.
KeyErrors == {NoErr, [kind |-> "KeyUnreadable"], [kind |-> "KeyUnparsable"]}

\* The ways a context ends.
CtxErrors == {[kind |-> "DeadlineExceeded"], [kind |-> "Canceled"]}

\* The SSHConfig values DialSSH is called with: a password, or a key file.
SSHConfigs == { rc.SSH : rc \in
    { [Shell |-> "bash", Method |-> "ssh",
       SSH |-> [Port |-> "22", User |-> "ci", Password |-> "secret", PrivKey |-> ""]],
      [Shell |-> "pwsh", Method |-> "ssh",
       SSH |-> [Port |-> "2222", User |-> "admin", Password |-> "",
                PrivKey |-> "/keys/id"]] } }

NoClient == [kind |-> "nil"]

\* The last entries of a sequence, at most n of them.
RECURSIVE LastN(_, _)
LastN(seq, n) == IF Len(seq) <= n THEN seq ELSE LastN(Tail(seq), n)

\* IsDialError retrying on every *net.OpError.
IsDialError_AnyOp(err) == err.kind = "OpError"

\* src/run.go:204: errors.As(err, &netErr) && netErr.Op == "dial".
IsDialError(err) == IF err.kind = "OpError" THEN err.Op = "dial" ELSE FALSE

\* A return of DialSSH.
DialReturn(client, err) ==
    /\ dresult' = [client |-> client, err |-> err]
    /\ dpc' = "return"

\* DTop starting an attempt whatever the state of the context.
DTop_IgnoresContext ==
    /\ dpc = "top"
    /\ dpc' = "auth"
    /\ UNCHANGED <<dcfg, dctx, dlog, dsleeps, dresult, dauth>>
    /\ UNCHANGED <<watchVars, digestVars, readyVars, lifeVars, exitVars, createVars,
                   clockVars, argvVars, logVars>>

\* src/run.go:171-177: the top of the loop: a context that is done ends the
\* call with ctx.Err(); the default case goes on to the attempt.
DTop ==
    /\ dpc = "top"
    /\ IF dctx # NoErr
       THEN DialReturn(NoClient, dctx)
       ELSE dpc' = "auth" /\ UNCHANGED dresult
    /\ UNCHANGED <<dcfg, dctx, dlog, dsleeps, dauth>>
    /\ UNCHANGED <<watchVars, digestVars, readyVars, lifeVars, exitVars, createVars,
                   clockVars, argvVars, logVars>>

\* src/run.go:179-199: the client configuration of the attempt: with a key
\* path the file is read and parsed, and either failure is returned; the
\* password method is always added.
DAuth ==
    /\ dpc = "auth"
    /\ IF dcfg.PrivKey # ""
       THEN \E k \in KeyErrors :
               IF k # NoErr
               THEN DialReturn(NoClient, k) /\ UNCHANGED dauth
               ELSE /\ dauth' = <<"publickey", "password">>
                    /\ dpc' = "dial"
                    /\ UNCHANGED dresult
       ELSE /\ dauth' = <<"password">>
            /\ dpc' = "dial"
            /\ UNCHANGED dresult
    /\ UNCHANGED <<dcfg, dctx, dlog, dsleeps>>
    /\ UNCHANGED <<watchVars, digestVars, readyVars, lifeVars, exitVars, createVars,
                   clockVars, argvVars, logVars>>

\* src/run.go:201-212: the attempt and the switch on its error: a dial
\* error leads to the back-off wait, any other error is returned, and
\* otherwise the client is. dlog keeps the last MaxAttempts outcomes.
DDial ==
    /\ dpc = "dial"
    /\ \E err \in AttemptErrors :
          /\ dlog' = LastN(Append(dlog, err), MaxAttempts)
          /\ IF IsDialError(err)
             THEN dpc' = "sleep" /\ UNCHANGED dresult
             ELSE IF err # NoErr
             THEN DialReturn(NoClient, err)
             ELSE DialReturn([kind |-> "client", user |-> dcfg.User, port |-> dcfg.Port,
                              auth |-> dauth], NoErr)
    /\ UNCHANGED <<dcfg, dctx, dsleeps, dauth>>
    /\ UNCHANGED <<watchVars, digestVars, readyVars, lifeVars, exitVars, createVars,
                   clockVars, argvVars, logVars>>

\* src/run.go:206-207: time.Sleep(back.NextBackOff()) and continue. dsleeps
\* counts the waits up to MaxAttempts.
DSleep ==
    /\ dpc = "sleep"
    /\ dpc' = "top"
    /\ dsleeps' = IF dsleeps < MaxAttempts THEN dsleeps + 1 ELSE dsleeps
    /\ UNCHANGED <<dcfg, dctx, dlog, dresult, dauth>>
    /\ UNCHANGED <<watchVars, digestVars, readyVars, lifeVars, exitVars, createVars,
                   clockVars, argvVars, logVars>>

\* The retry deadline of the caller (src/run.go:71, context.WithTimeout)
\* expires, or the context is cancelled.
DExpire ==
    /\ dpc \notin {"idle", "return"}
    /\ dctx = NoErr
    /\ dctx' \in CtxErrors
    /\ UNCHANGED <<dpc, dcfg, dlog, dsleeps, dresult, dauth>>
    /\ UNCHANGED <<watchVars, digestVars, readyVars, lifeVars, exitVars, createVars,
                   clockVars, argvVars, logVars>>

\* DialSSH is called, with a context that may already be done.
InitDial ==
    /\ dpc = "top"
    /\ dcfg \in SSHConfigs
    /\ dctx \in {NoErr} \cup CtxErrors
    /\ dlog = <<>>
    /\ dsleeps = 0
    /\ dresult = <<>>
    /\ dauth = <<>>
    /\ WatchIdle
    /\ DigestIdle
    /\ ReadyIdle
    /\ LifeIdle
    /\ ExitIdle
    /\ CreateIdle
    /\ RestIdle

NextDial ==
    \/ DTop
    \/ DAuth
    \/ DDial
    \/ DSleep
    \/ DExpire

SpecDial == InitDial /\ [][NextDial]_vars

\* The loop keeps running (every attempt returns: the dial step is bounded
\* by dialTimeout), and the context given by the stages has a deadline.
SpecDialFair ==
    /\ SpecDial
    /\ WF_vars(DTop)
    /\ WF_vars(DAuth)
    /\ WF_vars(DDial)
    /\ WF_vars(DSleep)
    /\ WF_vars(DExpire)

\* The loop makes an attempt.
Attempt == dpc = "dial" /\ dpc' # "dial"

LastAttempt == dlog[Len(dlog)]

\* C14: an attempt that fails at the dial step is followed by the wait and
\* another turn of the loop; an attempt that fails in any other way makes
\* DialSSH return that error at once, as does a key file that cannot be
\* read or parsed, whether or not the context is done; so every attempt but
\* the last failed at the dial step.
C14_OnlyDialErrorsRetried ==
    /\ [][Attempt
            => /\ IsDialError(LastAttempt') <=> (dpc' = "sleep" /\ dresult' = <<>>)
               /\ (LastAttempt' # NoErr /\ LastAttempt' # DialErr)
                     => /\ dresult' = [client |-> NoClient, err |-> LastAttempt']
                        /\ dpc' = "return"]_vars
    /\ [][(dpc = "auth" /\ dpc' = "return")
            => /\ dresult'.err \in KeyErrors \ {NoErr}
               /\ dresult'.client = NoClient
               /\ dlog' = dlog]_vars
    /\ [][dpc = "return" => (dlog' = dlog /\ dresult' = dresult)]_vars
    /\ [](\A i \in 1..(Len(dlog) - 1) : dlog[i] = DialErr)

\* DialSSH has returned a rejected authentication right after a dial
\* failure, with the context not done.
C14_Witness ==
    /\ dpc = "return" /\ dctx = NoErr
    /\ dlog = <<DialErr, [kind |-> "AuthRejected"]>>
    /\ dresult = [client |-> NoClient, err |-> [kind |-> "AuthRejected"]]

\* C15: every DialSSH call returns. A successful attempt returns its
\* connection, whatever dial failures came before; the top of the loop with
\* the context done returns the context's error and starts no attempt; an
\* attempt is started only from a top of the loop that found the context
\* not done.
C15_DialTerminates ==
    /\ <>(dpc = "return")
    /\ [][(Attempt /\ LastAttempt' = NoErr)
            => /\ dresult'.err = NoErr
               /\ dresult'.client =
                     [kind |-> "client", user |-> dcfg.User, port |-> dcfg.Port,
                      auth |-> dauth]]_vars
    /\ [][(dpc = "top" /\ dctx # NoErr)
            => /\ dresult' = [client |-> NoClient, err |-> dctx]
               /\ dpc' = "return"
               /\ dlog' = dlog]_vars
    /\ [][(dpc = "top" /\ dpc' = "auth") => dctx = NoErr]_vars
    /\ [][(dpc' = "auth" /\ dpc # "auth") => dpc = "top"]_vars
    /\ [][(dpc' = "dial" /\ dpc # "dial") => dpc = "auth"]_vars
    /\ [](dpc = "return" => dresult # <<>>)

\* DialSSH has returned the deadline error at the top of the loop after
\* attempts that all failed at the dial step.
C15_Witness ==
    /\ dpc = "return"
    /\ dresult = [client |-> NoClient, err |-> [kind |-> "DeadlineExceeded"]]
    /\ dlog = <<DialErr, DialErr>>
    /\ dsleeps = 2

JobID == "job-1"
OtherID == "job-2"

\* src/run.go:41.
RunConfigKey == "gitlab-runner-kubevirt.snai.pe/runconfig"

\* An instance of another job in the same namespace.
ForeignVMI ==
    [kind |-> "VMI", name |-> 0, label |-> OtherID, rv |-> 1, phase |-> "Running",
     ifaces |-> <<"10.0.0.1">>, conds |-> <<CondReadyTrue>>, annotations |-> <<>>,
     deleting |-> FALSE, createdWith |-> ZeroRunConfig]

\* The RunConfig values prepare is given on its command line.
RunConfigs ==
    { [Shell |-> "bash", Method |-> "ssh",
       SSH |-> [Port |-> "22", User |-> "ci", Password |-> "secret", PrivKey |-> ""]],
      [Shell |-> "pwsh", Method |-> "ssh",
       SSH |-> [Port |-> "2222", User |-> "admin", Password |-> "",
                PrivKey |-> "/keys/id"]] }

\* A JSON object is the sequence of its <<member path, string>> pairs; the
\* empty text (a missing annotation) is the empty sequence.
\* The serialized RunConfig CreateJobVM writes as the annotation.
MarshalRunConfig(rc) ==
    << <<"Shell", rc.Shell>>, <<"Method", rc.Method>>,
       <<"SSH.Port", rc.SSH.Port>>, <<"SSH.User", rc.SSH.User>>,
       <<"SSH.Password", rc.SSH.Password>>, <<"SSH.PrivKey", rc.SSH.PrivKey>> >>

\* The annotations of a created instance.
RunConfigAnnotation(rc) == [k \in {RunConfigKey} |-> MarshalRunConfig(rc)]

\* The value json.Unmarshal stores for a member: the last pair of that path,
\* the field's value before the call (zero) when the text has none.
Member(text, path) ==
    LET at == { i \in 1..Len(text) : text[i][1] = path }
    IN  IF at = {} THEN ""
        ELSE text[CHOOSE i \in at : \A j \in at : j <= i][2]

\* UnmarshalRunConfig losing the private key path.
UnmarshalRunConfig_DropsPrivKey(text) ==
    IF text = <<>> THEN [err |-> [kind |-> "JSONSyntax"], rc |-> ZeroRunConfig]
    ELSE [err |-> NoErr,
          rc |-> [Shell |-> Member(text, "Shell"), Method |-> Member(text, "Method"),
                  SSH |-> [Port |-> Member(text, "SSH.Port"),
                           User |-> Member(text, "SSH.User"),
                           Password |-> Member(text, "SSH.Password"),
                           PrivKey |-> ""]]]

\* src/run.go:58-61: json.Unmarshal of the annotation into a zero RunConfig;
\* the empty text is a syntax error.
UnmarshalRunConfig(text) ==
    IF text = <<>> THEN [err |-> [kind |-> "JSONSyntax"], rc |-> ZeroRunConfig]
    ELSE [err |-> NoErr,
          rc |-> [Shell |-> Member(text, "Shell"), Method |-> Member(text, "Method"),
                  SSH |-> [Port |-> Member(text, "SSH.Port"),
                           User |-> Member(text, "SSH.User"),
                           Password |-> Member(text, "SSH.Password"),
                           PrivKey |-> Member(text, "SSH.PrivKey")]]]

\* src/run.go:59: vm.Annotations[RunConfigKey], "" when the key is absent.
AnnotationOf(v, key) ==
    IF key \in DOMAIN v.annotations THEN v.annotations[key] ELSE <<>>

\* src/run.go:496-503: the instances of the namespace that carry the label.
List(c, id) == { v \in c : v.label = id }

\* FindJobVM returning one of several matches.
FindJobVM_PicksFirst(items, id) ==
    IF Cardinality(items) = 0
    THEN [err |-> [kind |-> "Disappeared"], vm |-> NilVMI]
    ELSE [err |-> NoErr, vm |-> CHOOSE v \in items : TRUE]

\* src/run.go:508-514: FindJobVM on the items the List call returned.
FindJobVM(items, id) ==
    IF Cardinality(items) = 0
    THEN [err |-> [kind |-> "Disappeared"], vm |-> NilVMI]
    ELSE IF Cardinality(items) > 1
    THEN [err |-> [kind |-> "AmbiguousID", count |-> Cardinality(items), id |-> id],
          vm |-> NilVMI]
    ELSE [err |-> NoErr, vm |-> CHOOSE v \in items : TRUE]

\* --------------------------------------------------------------- prepare
\* The resource quantities the parser accepts among the ones used here.
ValidQuantities == {"1", "1Gi"}

\* resource.ParseQuantity.
ParseQuantity(str) ==
    IF str \in ValidQuantities THEN [ok |-> TRUE, q |-> str] ELSE [ok |-> FALSE, q |-> ""]

\* The flags of PrepareCmd (src/run.go:598-613): the defaults, and one with a
\* malformed memory limit.
PrepareCmds ==
    { [DefaultImage |-> "", DefaultCPURequest |-> "1", DefaultCPULimit |-> "1",
       DefaultMemoryRequest |-> "1Gi", DefaultMemoryLimit |-> m,
       DefaultEphemeralStorageRequest |-> "", DefaultEphemeralStorageLimit |-> ""]
      : m \in {"1Gi", "1x"} }

\* src/main.go:76-83: the JobContext of a process: the identity, and the
\* image of the job (which may be empty).
JobContexts == { [ZeroJobContext EXCEPT !.ID = JobID, !.Image = img] : img \in {"", "img:latest"} }

Default(value, def) == IF value = "" THEN def ELSE value

\* src/run.go:616-645.
ApplyDefaults(j, cmd) ==
    [j EXCEPT !.CPURequest = Default(@, cmd.DefaultCPURequest),
              !.CPULimit = Default(@, cmd.DefaultCPULimit),
              !.MemoryRequest = Default(@, cmd.DefaultMemoryRequest),
              !.MemoryLimit = Default(@, cmd.DefaultMemoryLimit),
              !.EphemeralStorageRequest = Default(@, cmd.DefaultEphemeralStorageRequest),
              !.EphemeralStorageLimit = Default(@, cmd.DefaultEphemeralStorageLimit),
              !.Image = Default(@, cmd.DefaultImage)]

\* src/run.go:430-437.
ToParse(j) ==
    << [List |-> "Requests", Key |-> "cpu", Value |-> j.CPURequest],
       [List |-> "Limits", Key |-> "cpu", Value |-> j.CPULimit],
       [List |-> "Requests", Key |-> "memory", Value |-> j.MemoryRequest],
       [List |-> "Limits", Key |-> "memory", Value |-> j.MemoryLimit],
       [List |-> "Requests", Key |-> "ephemeral-storage", Value |-> j.EphemeralStorageRequest],
       [List |-> "Limits", Key |-> "ephemeral-storage", Value |-> j.EphemeralStorageLimit] >>

\* ParseEntries setting a zero quantity for an empty string.
RECURSIVE ParseEntries_ZeroForEmpty(_, _, _)
ParseEntries_ZeroForEmpty(entries, i, acc) ==
    IF i > Len(entries) THEN acc
    ELSE LET e == entries[i] IN
         IF e.Value # "" /\ ~ParseQuantity(e.Value).ok
         THEN [acc EXCEPT !.err = [kind |-> "InvalidQuantity", resource |-> e.Key]]
         ELSE ParseEntries_ZeroForEmpty(entries, i + 1,
                  [acc EXCEPT ![e.List] =
                      (e.Key :> (IF e.Value = "" THEN "0" ELSE ParseQuantity(e.Value).q)) @@ @])

\* src/run.go:439-447: the loop over toParse from entry i on.
RECURSIVE ParseEntries(_, _, _)
ParseEntries(entries, i, acc) ==
    IF i > Len(entries) THEN acc
    ELSE LET e == entries[i] IN
         IF e.Value = "" THEN ParseEntries(entries, i + 1, acc)
         ELSE IF ~ParseQuantity(e.Value).ok
         THEN [acc EXCEPT !.err = [kind |-> "InvalidQuantity", resource |-> e.Key]]
         ELSE ParseEntries(entries, i + 1,
                  [acc EXCEPT ![e.List] = (e.Key :> ParseQuantity(e.Value).q) @@ @])

\* CreateJobVM without the check of the image.
CreateJobVM_NoImageCheck(j, rc) ==
    LET res == ParseEntries(ToParse(j), 1, [err |-> NoErr, Requests |-> <<>>, Limits |-> <<>>])
    IN  IF res.err # NoErr THEN [err |-> res.err, template |-> NilVMI]
        ELSE [err |-> NoErr,
              template |-> [kind |-> "VMI", label |-> j.ID, image |-> j.Image,
                            requests |-> res.Requests, limits |-> res.Limits,
                            annotations |-> RunConfigAnnotation(rc)]]

\* src/run.go:418-491: what CreateJobVM does before the creation request: the
\* error it returns, or the instance it asks the control plane to create.
CreateJobVM(j, rc) ==
    LET res == ParseEntries(ToParse(j), 1, [err |-> NoErr, Requests |-> <<>>, Limits |-> <<>>])
    IN  IF res.err # NoErr THEN [err |-> res.err, template |-> NilVMI]
        ELSE IF j.Image = "" THEN [err |-> [kind |-> "MissingImage"], template |-> NilVMI]
        ELSE [err |-> NoErr,
              template |-> [kind |-> "VMI", label |-> j.ID, image |-> j.Image,
                            requests |-> res.Requests, limits |-> res.Limits,
                            annotations |-> RunConfigAnnotation(rc)]]

\* The instance the control plane stores for a creation request: a new name,
\* no status yet. createdWith records the RunConfig prepare was given.
Stored(t, name, rc) ==
    [kind |-> "VMI", name |-> name, label |-> t.label, rv |-> 1, phase |-> "Pending",
     ifaces |-> <<>>, conds |-> <<>>, annotations |-> t.annotations,
     deleting |-> FALSE, createdWith |-> rc]

\* A request to the control plane or to the instance, and whether it
\* succeeded.
Req(op, ok) == [op |-> op, ok |-> ok]

\* The environments the stage processes are started in.
LifeEnvirons ==
    { [n \in {"SYSTEM_FAILURE_EXIT_CODE", "BUILD_FAILURE_EXIT_CODE"} |->
          IF n = "SYSTEM_FAILURE_EXIT_CODE" THEN pair[1] ELSE pair[2]]
      : pair \in { <<<<>>, <<>>>>, <<<<"7">>, <<"1", "7">>>>, <<<<"x">>, <<"-">>>> } }

\* src/main.go:70-73 and src/run.go:109-123: a stage process ends, out being
\* what it has written to the standard error so far. A returned error is
\* printed and systemFailureExit is called; a remote command that ended
\* with an exit status or a signal calls buildFailureExit; otherwise main
\* returns (status 0). The locals of the process are gone.
Leave(out, class, err) ==
    /\ stage' = "none"
    /\ pc' = "idle"
    /\ lastExit' = [class |-> class, err |-> err]
    /\ jctx' = ZeroJobContext /\ prc' = ZeroRunConfig /\ lvm' = NilVMI
    /\ found' = NoFind /\ rrc' = ZeroRunConfig /\ dialled' = NoDial
    /\ IF class = "success"
       THEN /\ stderr' = out
            /\ exited' = [var |-> "", value |-> <<>>, code |-> 0]
       ELSE \E environ \in LifeEnvirons :
               LET x == FailureExit(class, environ)
                   printed == IF class = "system"
                              THEN <<[kind |-> "Error", err |-> err]>> ELSE <<>>
               IN  /\ stderr' = out \o printed \o x.report
                   /\ exited' = [var |-> ExitVarOf(class),
                                 value |-> environ[ExitVarOf(class)],
                                 code |-> x.status]

\* A stage process that has started ends.
Exit(class, err) == Leave(stderr, class, err)

\* A stage process starts.
Invoke(name) ==
    /\ stage = "none"
    /\ nInv < MaxInvocations
    /\ nInv' = nInv + 1
    /\ invoked' = name

\* src/run.go:615-654: prepare starts, applies the defaults and calls
\* CreateJobVM; the control plane may refuse the creation.
PrepareCreate ==
    /\ Invoke("prepare")
    /\ \E j \in JobContexts, cmd \in PrepareCmds, rc \in RunConfigs :
          LET jd == ApplyDefaults(j, cmd)
              c == CreateJobVM(jd, rc)
          IN  \/ /\ c.err # NoErr
                 /\ Leave(<<>>, "system", c.err)
                 /\ reqs' = <<>>
                 /\ UNCHANGED <<cp, created>>
              \/ /\ c.err = NoErr
                 /\ Leave(<<>>, "system", Err("CreateError"))
                 /\ reqs' = <<Req("create", FALSE)>>
                 /\ UNCHANGED <<cp, created>>
              \/ /\ c.err = NoErr
                 /\ created < MaxCreated
                 /\ reqs' = <<Req("create", TRUE)>>
                 /\ stderr' = <<>>
                 /\ cp' = cp \cup {Stored(c.template, created + 1, rc)}
                 /\ created' = created + 1
                 /\ lvm' = Stored(c.template, created + 1, rc)
                 /\ stage' = "prepare"
                 /\ pc' = "p_watch"
                 /\ jctx' = jd
                 /\ prc' = rc
                 /\ lastExit' = NoExit /\ exited' = NoOsExit
                 /\ UNCHANGED <<found, rrc, dialled>>
    /\ UNCHANGED <<watchVars, digestVars, readyVars, exitVars, dialVars, createVars,
                   clockVars, argvVars, logVars>>

\* src/run.go:660-681: the readiness wait. WatchJobVM returns success on an
\* event of an instance of the identity that is ready (vm is that object), or
\* the deadline or a subscription error ends it.
PrepareWatch ==
    /\ stage = "prepare" /\ pc = "p_watch"
    /\ \/ \E v \in List(cp, jctx.ID) :
             /\ PrepareFn("MODIFIED", v) = {"ErrWatchDone"}
             /\ lvm' = v
             /\ pc' = "p_dial"
             /\ UNCHANGED <<stage, jctx, prc, found, rrc, dialled, lastExit, stderr, exited>>
       \/ \E e \in {"DeadlineExceeded", "WatchError"} : Exit("system", Err(e))
    /\ reqs' = Append(reqs, Req("watch", stage' = "prepare"))
    /\ UNCHANGED <<cp, created, nInv, invoked>>
    /\ UNCHANGED <<watchVars, digestVars, readyVars, exitVars, dialVars, createVars,
                   clockVars, argvVars, logVars>>

\* src/run.go:691-696: DialSSH to the first interface with prepare's own
\* RunConfig; it returns a connection or an error.
PrepareDial ==
    /\ stage = "prepare" /\ pc = "p_dial"
    /\ \/ Exit("success", NoErr)
       \/ \E e \in {"DeadlineExceeded", "SSHError"} : Exit("system", Err(e))
    /\ reqs' = Append(reqs, Req("dial", lastExit'.class = "success"))
    /\ UNCHANGED <<cp, created, nInv, invoked>>
    /\ UNCHANGED <<watchVars, digestVars, readyVars, exitVars, dialVars, createVars,
                   clockVars, argvVars, logVars>>

\* RunLocate without the test of the phase.
RunLocate_NoPhaseCheck ==
    /\ Invoke("run")
    /\ \E j \in JobContexts :
          \/ /\ Leave(<<>>, "system", Err("ListError"))   \* the List call failed
             /\ reqs' = <<Req("list", FALSE)>>
          \/ /\ reqs' = <<Req("list", TRUE)>>
             /\ LET f == FindJobVM(List(cp, j.ID), j.ID)
                    u == UnmarshalRunConfig(AnnotationOf(f.vm, RunConfigKey))
                IN  IF f.err # NoErr THEN Leave(<<>>, "system", f.err)
                    ELSE IF u.err # NoErr THEN Leave(<<>>, "system", u.err)
                    ELSE IF NoIP(f.vm) THEN Leave(<<>>, "system", Err("NoIP"))
                    ELSE
                      /\ stage' = "run"
                      /\ pc' = "r_dial"
                      /\ jctx' = j
                      /\ found' = f
                      /\ lvm' = f.vm
                      /\ rrc' = u.rc
                      /\ stderr' = <<>>
                      /\ lastExit' = NoExit /\ exited' = NoOsExit
                      /\ UNCHANGED <<prc, dialled>>
    /\ UNCHANGED <<cp, created>>
    /\ UNCHANGED <<watchVars, digestVars, readyVars, exitVars, dialVars, createVars,
                   clockVars, argvVars, logVars>>

\* ------------------------------------------------------------------- run
\* src/run.go:53-69: run starts, locates the instance, decodes the
\* annotation, and checks the phase and the first interface.
RunLocate ==
    /\ Invoke("run")
    /\ \E j \in JobContexts :
          \/ /\ Leave(<<>>, "system", Err("ListError"))   \* the List call failed
             /\ reqs' = <<Req("list", FALSE)>>
          \/ /\ reqs' = <<Req("list", TRUE)>>
             /\ LET f == FindJobVM(List(cp, j.ID), j.ID)
                    u == UnmarshalRunConfig(AnnotationOf(f.vm, RunConfigKey))
                IN  IF f.err # NoErr THEN Leave(<<>>, "system", f.err)
                    ELSE IF u.err # NoErr THEN Leave(<<>>, "system", u.err)
                    ELSE IF f.vm.phase # "Running"
                    THEN Leave(<<>>, "system", Err("NotRunning"))
                    ELSE IF NoIP(f.vm) THEN Leave(<<>>, "system", Err("NoIP"))
                    ELSE
                      /\ stage' = "run"
                      /\ pc' = "r_dial"
                      /\ jctx' = j
                      /\ found' = f
                      /\ lvm' = f.vm
                      /\ rrc' = u.rc
                      /\ stderr' = <<>>
                      /\ lastExit' = NoExit /\ exited' = NoOsExit
                      /\ UNCHANGED <<prc, dialled>>
    /\ UNCHANGED <<cp, created>>
    /\ UNCHANGED <<watchVars, digestVars, readyVars, exitVars, dialVars, createVars,
                   clockVars, argvVars, logVars>>

\* src/run.go:71-80: DialSSH(timeout, ip, rc.SSH, cmd.DialTimeout).
RunDial ==
    /\ stage = "run" /\ pc = "r_dial"
    /\ \/ /\ dialled' = [ip |-> lvm.ifaces[1], ssh |-> rrc.SSH]
          /\ pc' = "r_upload"
          /\ UNCHANGED <<stage, jctx, prc, lvm, found, rrc, lastExit, stderr, exited>>
       \/ \E e \in {"DeadlineExceeded", "SSHError"} : Exit("system", Err(e))
    /\ reqs' = Append(reqs, Req("dial", stage' = "run"))
    /\ UNCHANGED <<cp, created, nInv, invoked>>
    /\ UNCHANGED <<watchVars, digestVars, readyVars, exitVars, dialVars, createVars,
                   clockVars, argvVars, logVars>>

\* RunUpload going on to the command after an upload that failed.
RunUpload_IgnoresError ==
    /\ stage = "run" /\ pc = "r_upload"
    /\ pc' = "r_exec"
    /\ \E ok \in BOOLEAN : reqs' = Append(reqs, Req("upload", ok))
    /\ UNCHANGED <<stage, jctx, prc, lvm, found, rrc, dialled, lastExit, stderr, exited>>
    /\ UNCHANGED <<cp, created, nInv, invoked>>
    /\ UNCHANGED <<watchVars, digestVars, readyVars, exitVars, dialVars, createVars,
                   clockVars, argvVars, logVars>>

\* src/run.go:82-93: the upload of the script.
RunUpload ==
    /\ stage = "run" /\ pc = "r_upload"
    /\ \/ /\ pc' = "r_exec"
          /\ UNCHANGED <<stage, jctx, prc, lvm, found, rrc, dialled, lastExit, stderr, exited>>
       \/ Exit("system", Err("UploadError"))
    /\ reqs' = Append(reqs, Req("upload", stage' = "run"))
    /\ UNCHANGED <<cp, created, nInv, invoked>>
    /\ UNCHANGED <<watchVars, digestVars, readyVars, exitVars, dialVars, createVars,
                   clockVars, argvVars, logVars>>

\* What Run() of the remote command returns: nil, an *ssh.ExitError (the
\* command ended with a non-zero status, or with a signal), an
\* *ssh.ExitMissingError (the server sent neither), or a failure of the
\* session or of the connection.
CmdResults ==
    { NoErr,
      [kind |-> "ExitError", status |-> 3, signal |-> ""],
      [kind |-> "ExitError", status |-> 137, signal |-> "KILL"],
      [kind |-> "ExitMissingError"],
      [kind |-> "ConnectionLost"] }

\* ExecClass taking every failure of Run() for a failure of the build.
ExecClass_AllBuild(err) == IF err = NoErr THEN "success" ELSE "build"

\* src/run.go:109-123: how the stage ends for what Run() returned
\* (errors.As(err, &exiterr) calls buildFailureExit, any other error is
\* returned to main).
ExecClass(err) ==
    IF err = NoErr THEN "success"
    ELSE IF err.kind = "ExitError" THEN "build"
    ELSE "system"

\* src/run.go:111-118: the message written for an *ssh.ExitError.
ExecMessage(err) ==
    IF err.kind # "ExitError" THEN <<>>
    ELSE IF err.signal # "" THEN <<[kind |-> "CommandCrashed", signal |-> err.signal]>>
    ELSE IF err.status # 0 THEN <<[kind |-> "CommandExited", status |-> err.status]>>
    ELSE <<[kind |-> "CommandMessage"]>>

\* src/run.go:106-128: the remote command is run.
RunExec ==
    /\ stage = "run" /\ pc = "r_exec"
    /\ \E err \in CmdResults :
          /\ Leave(stderr \o ExecMessage(err), ExecClass(err), err)
          /\ reqs' = Append(reqs, Req("exec", err = NoErr))
    /\ UNCHANGED <<cp, created, nInv, invoked>>
    /\ UNCHANGED <<watchVars, digestVars, readyVars, exitVars, dialVars, createVars,
                   clockVars, argvVars, logVars>>

\* --------------------------------------------------------------- cleanup
\* The --skip-if lists cleanup is given.
SkipIfs ==
    {<<>>, <<"Running">>, <<"!Running">>, <<"Failed", "!Pending">>,
     <<"!Failed", "Running">>, <<"Pending", "Running">>}

\* src/cleanup.go:33-34: a predicate split at a leading "!"
\* (strings.HasPrefix(skipIf, "!") and skipIf[1:]).
Predicate(str) ==
    CASE str = "!Running" -> <<"!", "Running">>
      [] str = "!Pending" -> <<"!", "Pending">>
      [] str = "!Failed" -> <<"!", "Failed">>
      [] OTHER -> <<str>>

\* src/cleanup.go:32-35: check() for one predicate.
Check(skipIf, phase) ==
    LET q == Predicate(skipIf)
    IN  IF q[1] = "!" THEN phase # q[2] ELSE phase = q[1]

\* SkippedBy returning the last predicate that matches.
RECURSIVE SkippedBy_LastMatch(_, _, _)
SkippedBy_LastMatch(list, i, phase) ==
    IF i > Len(list) THEN 0
    ELSE IF SkippedBy_LastMatch(list, i + 1, phase) # 0
    THEN SkippedBy_LastMatch(list, i + 1, phase)
    ELSE IF Check(list[i], phase) THEN i
    ELSE 0

\* src/cleanup.go:31-40: the loop over cmd.SkipIf from index i on: the index
\* of the predicate it returns at, 0 when it runs to the end.
RECURSIVE SkippedBy(_, _, _)
SkippedBy(list, i, phase) ==
    IF i > Len(list) THEN 0
    ELSE IF Check(list[i], phase) THEN i
    ELSE SkippedBy(list, i + 1, phase)

\* src/cleanup.go:26-40: cleanup starts, locates the instance and evaluates
\* the skip predicates.
CleanupLocate ==
    /\ Invoke("cleanup")
    /\ \E j \in JobContexts, skipIf \in SkipIfs :
          \/ /\ Leave(<<>>, "system", Err("ListError"))   \* the List call failed
             /\ reqs' = <<Req("list", FALSE)>>
          \/ /\ reqs' = <<Req("list", TRUE)>>
             /\ LET f == FindJobVM(List(cp, j.ID), j.ID)
                    by == SkippedBy(skipIf, 1, f.vm.phase)
                IN  IF f.err # NoErr THEN Leave(<<>>, "system", f.err)
                    ELSE IF by # 0
                    THEN Leave(<<[kind |-> "Skipping", name |-> f.vm.name,
                                  skipIf |-> skipIf[by], all |-> skipIf,
                                  phase |-> f.vm.phase]>>,
                               "success", NoErr)
                    ELSE
                      /\ stage' = "cleanup"
                      /\ pc' = "c_delete"
                      /\ jctx' = j
                      /\ found' = f
                      /\ lvm' = f.vm
                      /\ stderr' = <<[kind |-> "Deleting", name |-> f.vm.name,
                                      all |-> skipIf, phase |-> f.vm.phase]>>
                      /\ lastExit' = NoExit /\ exited' = NoOsExit
                      /\ UNCHANGED <<prc, rrc, dialled>>
    /\ UNCHANGED <<cp, created>>
    /\ UNCHANGED <<watchVars, digestVars, readyVars, exitVars, dialVars, createVars,
                   clockVars, argvVars, logVars>>

\* CleanupDelete repeating a delete request that failed.
CleanupDelete_Retries ==
    /\ stage = "cleanup" /\ pc = "c_delete"
    /\ \/ /\ \E v \in cp : v.name = lvm.name
          /\ cp' = { IF v.name = lvm.name THEN [v EXCEPT !.deleting = TRUE] ELSE v : v \in cp }
          /\ pc' = "c_watch"
          /\ reqs' = Append(reqs, Req("delete", TRUE))
       \/ /\ Len(reqs) < 3
          /\ reqs' = Append(reqs, Req("delete", FALSE))
          /\ UNCHANGED <<cp, pc>>
    /\ UNCHANGED <<stage, jctx, prc, lvm, found, rrc, dialled, lastExit, stderr, exited>>
    /\ UNCHANGED <<created, nInv, invoked>>
    /\ UNCHANGED <<watchVars, digestVars, readyVars, exitVars, dialVars, createVars,
                   clockVars, argvVars, logVars>>

\* src/cleanup.go:44-46: the delete request, by name. The control plane marks
\* the instance as being deleted, or answers with an error (no such instance,
\* or any other).
CleanupDelete ==
    /\ stage = "cleanup" /\ pc = "c_delete"
    /\ \/ /\ \E v \in cp : v.name = lvm.name
          /\ cp' = { IF v.name = lvm.name THEN [v EXCEPT !.deleting = TRUE] ELSE v : v \in cp }
          /\ pc' = "c_watch"
          /\ UNCHANGED <<stage, jctx, prc, lvm, found, rrc, dialled, lastExit, stderr, exited>>
       \/ /\ Exit("system", Err("DeleteError"))
          /\ UNCHANGED cp
    /\ reqs' = Append(reqs, Req("delete", stage' = "cleanup"))
    /\ UNCHANGED <<created, nInv, invoked>>
    /\ UNCHANGED <<watchVars, digestVars, readyVars, exitVars, dialVars, createVars,
                   clockVars, argvVars, logVars>>

\* src/cleanup.go:48-65: the wait for the instance to go away: WatchJobVM
\* returns success (a deletion event, or a stream error) or an error (the
\* deadline, a subscription error).
CleanupWatch ==
    /\ stage = "cleanup" /\ pc = "c_watch"
    /\ \/ Exit("success", NoErr)
       \/ \E e \in {"DeadlineExceeded", "WatchError"} : Exit("system", Err(e))
    /\ reqs' = Append(reqs, Req("watch", lastExit'.class = "success"))
    /\ UNCHANGED <<cp, created, nInv, invoked>>
    /\ UNCHANGED <<watchVars, digestVars, readyVars, exitVars, dialVars, createVars,
                   clockVars, argvVars, logVars>>

\* ------------------------------------------- the control plane's own steps
\* An instance that is not being deleted starts: it gets its address, then
\* its Ready condition.
CpAdvance ==
    /\ \E v \in cp :
          /\ v.label = JobID /\ ~v.deleting
          /\ \/ /\ v.phase = "Pending"
                /\ cp' = (cp \ {v}) \cup
                         {[v EXCEPT !.phase = "Running", !.ifaces = <<"", "10.0.0.2">>,
                                    !.conds = <<CondReadyFalse>>]}
             \/ /\ v.phase = "Running" /\ NoIP(v)
                /\ cp' = (cp \ {v}) \cup
                         {[v EXCEPT !.ifaces = <<"10.0.0.1", "10.0.0.2">>]}
             \/ /\ v.phase = "Running" /\ ~NoIP(v) /\ v.conds = <<CondReadyFalse>>
                /\ cp' = (cp \ {v}) \cup {[v EXCEPT !.conds = <<CondReadyTrue>>]}
    /\ UNCHANGED <<created, nInv, stage, pc, jctx, prc, lvm, found, rrc, dialled,
                   invoked, lastExit, reqs, stderr, exited>>
    /\ UNCHANGED <<watchVars, digestVars, readyVars, exitVars, dialVars, createVars,
                   clockVars, argvVars, logVars>>

\* A running instance fails.
CpFail ==
    /\ \E v \in cp :
          /\ v.label = JobID /\ ~v.deleting /\ v.phase = "Running"
          /\ cp' = (cp \ {v}) \cup {[v EXCEPT !.phase = "Failed", !.conds = <<CondReadyFalse>>]}
    /\ UNCHANGED <<created, nInv, stage, pc, jctx, prc, lvm, found, rrc, dialled,
                   invoked, lastExit, reqs, stderr, exited>>
    /\ UNCHANGED <<watchVars, digestVars, readyVars, exitVars, dialVars, createVars,
                   clockVars, argvVars, logVars>>

\* An instance that is being deleted goes away.
CpRemove ==
    /\ \E v \in cp : v.deleting /\ cp' = cp \ {v}
    /\ UNCHANGED <<created, nInv, stage, pc, jctx, prc, lvm, found, rrc, dialled,
                   invoked, lastExit, reqs, stderr, exited>>
    /\ UNCHANGED <<watchVars, digestVars, readyVars, exitVars, dialVars, createVars,
                   clockVars, argvVars, logVars>>

Init ==
    /\ cp \in {{}, {ForeignVMI}}
    /\ created = 0 /\ nInv = 0 /\ stage = "none" /\ pc = "idle"
    /\ NoLocals /\ invoked = "none" /\ lastExit = NoExit
    /\ reqs = <<>> /\ stderr = <<>> /\ exited = NoOsExit
    /\ WatchIdle
    /\ DigestIdle
    /\ ReadyIdle
    /\ ExitIdle
    /\ DialIdle
    /\ CreateIdle
    /\ RestIdle

Next ==
    \/ PrepareCreate
    \/ PrepareWatch
    \/ PrepareDial
    \/ RunLocate
    \/ RunDial
    \/ RunUpload
    \/ RunExec
    \/ CleanupLocate
    \/ CleanupDelete
    \/ CleanupWatch
    \/ CpAdvance
    \/ CpFail
    \/ CpRemove

Spec == Init /\ [][Next]_vars

\* ------------------------------------------------ claims on the lifecycle
\* The instances of the job's identity that are not being deleted.
Live == { v \in cp : v.label = JobID /\ ~v.deleting }

\* C1: whatever prepare, run and cleanup invocations have taken place, at
\* most one live instance carries the job's identity.
C1_AtMostOneLiveInstance == Cardinality(Live) <= 1

C10_FindJobVM ==
    [][(nInv' = nInv + 1 /\ invoked' \in {"run", "cleanup"})
        => /\ cp' = cp
           /\ LET items == { v \in cp : v.label = JobID }
                  n == Cardinality(items)
              IN  \/ stage' = "none" /\ lastExit'.err = Err("ListError")
                  \/ /\ n = 0
                     /\ stage' = "none"
                     /\ lastExit' = [class |-> "system", err |-> [kind |-> "Disappeared"]]
                  \/ /\ n >= 2
                     /\ stage' = "none"
                     /\ lastExit' = [class |-> "system",
                                     err |-> [kind |-> "AmbiguousID", count |-> n,
                                              id |-> JobID]]
                  \/ /\ n = 1
                     /\ stage' = "none" =>
                           lastExit'.err.kind \notin {"Disappeared", "AmbiguousID"}
                     /\ stage' # "none" =>
                           (found'.err = NoErr /\ found'.vm \in items /\ lvm' = found'.vm)]_vars

\* A lookup has failed on two instances carrying the identity.
C10_Witness ==
    /\ invoked \in {"run", "cleanup"}
    /\ lastExit.err = [kind |-> "AmbiguousID", count |-> 2, id |-> JobID]
    /\ Cardinality({ v \in cp : v.label = JobID }) = 2

\* The requests of a kind among the requests issued.
Ops(op) == { i \in 1..Len(reqs) : reqs[i].op = op }

\* A skip predicate matches a phase.
Matches(p, phase) ==
    \/ p \in {"Pending", "Running", "Failed"} /\ phase = p
    \/ p = "!Pending" /\ phase # "Pending"
    \/ p = "!Running" /\ phase # "Running"
    \/ p = "!Failed" /\ phase # "Failed"

\* C11: cleanup skips, with success and without a delete request, at the
\* first predicate of its list that matches the phase of the instance found
\* (<phase> matches that phase, !<phase> every other one), and goes on to
\* the delete when none matches: for phase Running, the list "Running"
\* skips and the list "!Running" deletes.
C11_SkipPredicates ==
    (invoked = "cleanup" /\ stderr # <<>> /\ stderr[1].kind \in {"Skipping", "Deleting"})
      => LET m == stderr[1]
         IN  /\ m.kind = "Skipping"
                  => /\ \E i \in 1..Len(m.all) :
                           /\ m.all[i] = m.skipIf
                           /\ Matches(m.all[i], m.phase)
                           /\ \A k \in 1..(i - 1) :
                                 ~Matches(m.all[k], m.phase) /\ m.all[k] # m.skipIf
                     /\ reqs = <<Req("list", TRUE)>>
                     /\ stage = "none"
                     /\ lastExit = [class |-> "success", err |-> NoErr]
                     /\ exited.code = 0
             /\ m.kind = "Deleting"
                  => /\ \A i \in 1..Len(m.all) : ~Matches(m.all[i], m.phase)
                     /\ \/ stage = "cleanup" /\ pc = "c_delete"
                        \/ Len(reqs) >= 2 /\ reqs[2].op = "delete"
             /\ (m.phase = "Running" /\ m.all = <<"Running">>) => m.kind = "Skipping"
             /\ (m.phase = "Running" /\ m.all = <<"!Running">>) => m.kind = "Deleting"

\* Cleanup has skipped a running instance at "!Failed", the first of two
\* predicates that both match.
C11_Witness ==
    /\ invoked = "cleanup" /\ stage = "none" /\ stderr # <<>>
    /\ stderr[1].kind = "Skipping"
    /\ stderr[1].all = <<"!Failed", "Running">>
    /\ stderr[1].phase = "Running"
    /\ stderr[1].skipIf = "!Failed"

\* C13: a cleanup issues at most one delete request, and only after a lookup
\* that returned one instance whose phase no skip predicate matches; a
\* cleanup whose lookup fails (no instance, several, or a failing List call)
\* ends with that error having issued no delete request and opened no watch.
C13_DeleteOnceAfterLookup ==
    [][invoked' = "cleanup"
        => /\ Cardinality({ i \in 1..Len(reqs') : reqs'[i].op = "delete" }) <= 1
           /\ (reqs' # reqs /\ reqs'[Len(reqs')].op = "delete")
                 => /\ reqs = <<Req("list", TRUE)>>
                    /\ found.err = NoErr
                    /\ found.vm.kind = "VMI" /\ found.vm.label = JobID
                    /\ lvm = found.vm
                    /\ stderr[1].kind = "Deleting"
                    /\ \A i \in 1..Len(stderr[1].all) :
                          ~Matches(stderr[1].all[i], found.vm.phase)
           /\ (nInv' = nInv + 1 /\ (Cardinality({ v \in cp : v.label = JobID }) # 1
                                    \/ reqs' = <<Req("list", FALSE)>>))
                 => /\ stage' = "none"
                    /\ Len(reqs') = 1 /\ reqs'[1].op = "list"
                    /\ lastExit'.class = "system"
                    /\ lastExit'.err.kind \in {"Disappeared", "AmbiguousID", "ListError"}
                    /\ stderr' # <<>> /\ stderr'[1] = [kind |-> "Error", err |-> lastExit'.err]
                    /\ cp' = cp]_vars

\* A cleanup has had its one delete request accepted and waits.
C13_Witness ==
    /\ invoked = "cleanup" /\ stage = "cleanup" /\ pc = "c_watch"
    /\ reqs = <<Req("list", TRUE), Req("delete", TRUE)>>
    /\ \E v \in cp : v.name = lvm.name /\ v.deleting

\* C16: run starts the remote command only as its fourth request, after a
\* connection and then an upload that both succeeded; when the connection
\* or the upload fails no command is started and the stage ends as a system
\* failure.
C16_ExecAfterUpload ==
    invoked = "run"
      => /\ \A i \in Ops("exec") :
               /\ i = 4
               /\ reqs[2] = Req("dial", TRUE)
               /\ reqs[3] = Req("upload", TRUE)
         /\ \A i \in Ops("upload") : i = 3 /\ reqs[2] = Req("dial", TRUE)
         /\ \A i \in Ops("dial") \cup Ops("upload") :
               ~reqs[i].ok
                 => /\ Ops("exec") = {}
                    /\ i = Len(reqs)
                    /\ stage = "none"
                    /\ lastExit.class = "system"
                    /\ exited.var = "SYSTEM_FAILURE_EXIT_CODE"

\* Run has started the remote command after the connection and the upload.
C16_Witness ==
    /\ invoked = "run" /\ Len(reqs) = 4 /\ reqs[4].op = "exec"
    /\ reqs[2] = Req("dial", TRUE) /\ reqs[3] = Req("upload", TRUE)

\* C17: a stage process exits as a build failure exactly when run's remote
\* command ran and ended with a non-zero status or a signal, with the build
\* failure code (1 unless overridden); it exits as a system failure on every
\* other error, with the system failure code (2 unless overridden); without
\* an error it exits with 0.
C17_ExitClass ==
    (stage = "none" /\ invoked # "none")
      => LET cmdFailed ==
                 /\ invoked = "run"
                 /\ Ops("exec") # {}
                 /\ lastExit.err.kind = "ExitError"
                 /\ (lastExit.err.status # 0 \/ lastExit.err.signal # "")
             code(default) ==
                 IF IsInteger(exited.value) THEN IntegerOf(exited.value) ELSE default
         IN  /\ cmdFailed
                  => /\ lastExit.class = "build"
                     /\ exited.var = "BUILD_FAILURE_EXIT_CODE"
                     /\ exited.code = code(1)
             /\ (lastExit.err # NoErr /\ ~cmdFailed)
                  => /\ lastExit.class = "system"
                     /\ exited.var = "SYSTEM_FAILURE_EXIT_CODE"
                     /\ exited.code = code(2)
                     /\ [kind |-> "Error", err |-> lastExit.err] \in
                           { stderr[i] : i \in 1..Len(stderr) }
             /\ lastExit.err = NoErr
                  => (lastExit.class = "success" /\ exited.code = 0)

\* Run has exited with status 1 after a command that ended with status 3,
\* with no override in its environment.
C17_Witness ==
    /\ invoked = "run" /\ stage = "none"
    /\ lastExit = [class |-> "build",
                   err |-> [kind |-> "ExitError", status |-> 3, signal |-> ""]]
    /\ exited = [var |-> "BUILD_FAILURE_EXIT_CODE", value |-> <<>>, code |-> 1]

\* ------------------------------------------------------- CreateJobVM alone
\* The request and limit strings of a job: none, a quantity, a malformed one.
QuantityStrings == {"", "1Gi", "1x"}

\* The JobContext values CreateJobVM is called with.
CreateContexts ==
    { [ID |-> JobID, Image |-> img, CPURequest |-> s[1], CPULimit |-> s[2],
       MemoryRequest |-> s[3], MemoryLimit |-> s[4],
       EphemeralStorageRequest |-> s[5], EphemeralStorageLimit |-> s[6]]
      : img \in {"", "img:latest"}, s \in [1..6 -> QuantityStrings] }

\* CreateJobVM is called: what it returns before the creation request, and
\* the creation requests it submits (src/run.go:493).
CreateCall ==
    /\ crOut = <<>>
    /\ \E rc \in RunConfigs :
          LET c == CreateJobVM(crIn, rc)
          IN  crOut' = <<[ret |-> c,
                          submitted |-> IF c.err = NoErr THEN <<c.template>> ELSE <<>>]>>
    /\ UNCHANGED crIn
    /\ UNCHANGED <<watchVars, digestVars, readyVars, lifeVars, exitVars, dialVars,
                   clockVars, argvVars, logVars>>

InitCreate ==
    /\ crIn \in CreateContexts
    /\ crOut = <<>>
    /\ WatchIdle
    /\ DigestIdle
    /\ ReadyIdle
    /\ LifeIdle
    /\ ExitIdle
    /\ DialIdle
    /\ RestIdle

NextCreate == CreateCall

SpecCreate == InitCreate /\ [][NextCreate]_vars

\* The six strings of a JobContext: the list, the resource, the string.
SixStrings(j) ==
    { <<"Requests", "cpu", j.CPURequest>>, <<"Limits", "cpu", j.CPULimit>>,
      <<"Requests", "memory", j.MemoryRequest>>, <<"Limits", "memory", j.MemoryLimit>>,
      <<"Requests", "ephemeral-storage", j.EphemeralStorageRequest>>,
      <<"Limits", "ephemeral-storage", j.EphemeralStorageLimit>> }

\* C19: in the instance CreateJobVM submits, the requests (limits) have an
\* entry for a resource exactly when the request (limit) string of that
\* resource is not empty, and the entry is the quantity parsed from it; a
\* quantity error comes from a string that is not empty.
C19_EmptyMeansUnset ==
    crOut # <<>> =>
        LET ret == crOut[1].ret
        IN  /\ ret.err = NoErr
                 => \A t \in SixStrings(crIn) :
                       LET list == IF t[1] = "Requests" THEN ret.template.requests
                                   ELSE ret.template.limits
                       IN  /\ (t[2] \in DOMAIN list) <=> (t[3] # "")
                           /\ t[3] # "" => list[t[2]] = t[3]
            /\ ret.err.kind = "InvalidQuantity"
                 => \E t \in SixStrings(crIn) :
                       t[3] \notin {"", "1Gi"} /\ t[2] = ret.err.resource
            /\ (\A t \in SixStrings(crIn) : t[3] \in {"", "1Gi"})
                 => ret.err.kind # "InvalidQuantity"

\* An instance has been submitted with a memory request and a CPU limit only.
C19_Witness ==
    /\ crOut # <<>>
    /\ crOut[1].ret.err = NoErr
    /\ crOut[1].submitted # <<>>
    /\ DOMAIN crOut[1].ret.template.requests = {"memory"}
    /\ DOMAIN crOut[1].ret.template.limits = {"cpu"}
    /\ crIn.CPURequest = "" /\ crIn.MemoryLimit = "" /\ crIn.EphemeralStorageLimit = ""

\* The first string, in the order of CreateJobVM, that does not parse.
Offending(j) ==
    LET bad == { i \in 1..6 : ToParse(j)[i].Value \notin {"", "1Gi"} }
    IN  IF bad = {} THEN 0 ELSE CHOOSE i \in bad : \A k \in bad : i <= k

\* C20: when a string that is not empty does not parse, CreateJobVM submits
\* nothing and fails with a quantity error that names the resource and says
\* whether the string was the request or the limit.
C20_QuantityErrorNamesRequestOrLimit ==
    (crOut # <<>> /\ Offending(crIn) # 0)
      => LET e == ToParse(crIn)[Offending(crIn)]
         IN  /\ crOut[1].submitted = <<>>
             /\ crOut[1].ret.err.kind = "InvalidQuantity"
             /\ crOut[1].ret.err.resource = e.Key
             /\ "list" \in DOMAIN crOut[1].ret.err
             /\ crOut[1].ret.err.list = e.List

\* C21, as stated: whenever the image of the job context is empty,
\* CreateJobVM fails with the missing-image error and submits nothing.
C21_EmptyImageIsMissingImage ==
    (crOut # <<>> /\ crIn.Image = "")
      => /\ crOut[1].ret.err = [kind |-> "MissingImage"]
         /\ crOut[1].submitted = <<>>

\* C21, amended: whenever the image of the job context is empty, CreateJobVM
\* fails and submits nothing; the error is the missing-image error when
\* every quantity string is empty or parses, and the quantity error of the
\* first string that does not parse otherwise (the strings are parsed before
\* the image is looked at, src/run.go:439-451).
C21_EmptyImageFails ==
    (crOut # <<>> /\ crIn.Image = "")
      => /\ crOut[1].submitted = <<>>
         /\ crOut[1].ret.err # NoErr
         /\ Offending(crIn) = 0 => crOut[1].ret.err = [kind |-> "MissingImage"]
         /\ Offending(crIn) # 0
              => /\ crOut[1].ret.err.kind = "InvalidQuantity"
                 /\ crOut[1].ret.err.resource = ToParse(crIn)[Offending(crIn)].Key

\* CreateJobVM has failed with the missing-image error for a job context
\* with no image and a memory request that parses.
C21_Witness ==
    /\ crOut # <<>>
    /\ crIn.Image = ""
    /\ crIn.MemoryRequest = "1Gi"
    /\ Offending(crIn) = 0
    /\ crOut[1].ret.err = [kind |-> "MissingImage"]
    /\ crOut[1].submitted = <<>>

\* ------------------------------------------------------------------------
\* Claims about WatchJobVM (continued)

\* C22: when WatchJobVM has returned, with success, a timeout or an error,
\* every subscription it opened during the call, the first one and each
\* resubscription, has been stopped.
C22_AllSubscriptionsStopped ==
    /\ stopped <= opened
    /\ wpc = "return" => stopped = opened

\* WatchJobVM has returned after a resubscription, both subscriptions
\* stopped.
C22_Witness ==
    /\ wpc = "return"
    /\ result \in {"ok", "DeadlineExceeded"}
    /\ opened >= 2
    /\ stopped = opened

\* The resource version of the object seen last, unset when there is none.
SeenRV == IF hist.seen = NilVMI THEN RVUnset ELSE hist.seen.rv

\* The callback has let the loop continue after a created, updated or
\* deleted event: the cursor is the resource version of the event's object.
CursorFollowsObject ==
    [][(RecvStep /\ ch # <<>> /\ Head(ch).type \in {"ADDED", "MODIFIED", "DELETED"}
          /\ wpc' = "select")
         => (Cursor' = Head(ch).object.rv /\ lastCall'.object = Head(ch).object)]_vars

\* C25, as stated: after every created, updated or deleted event the cursor
\* is the resource version of the event's object, and each resubscription
\* after a closed channel or an event with no kind starts from the resource
\* version of the object delivered last, or of the initial object when none
\* was delivered.
C25_ResumeFromLastObject ==
    /\ CursorFollowsObject
    /\ [][(opened' = opened + 1 /\ hist.recv \in {"closed", "empty"})
            => optsRV' = SeenRV]_vars

\* C25, amended: after every created, updated or deleted event that does not
\* end the wait the cursor is the resource version of the event's object;
\* every subscription starts from the resource version of the object
\* delivered last (of the initial object when none was delivered, from no
\* version when there is neither), unless an error event has reset the
\* cursor since that object: then it starts from "0", also when it follows
\* a closed channel or an event with no kind.
C25_ResumeFromCursor ==
    /\ CursorFollowsObject
    /\ [][(opened' = opened + 1)
            => optsRV' = IF hist.reset THEN RVResync ELSE SeenRV]_vars

\* A second subscription follows a closed channel and starts from the
\* resource version of the object the callback was given, which is not the
\* one of the initial object.
C25_Witness ==
    /\ wpc = "select"
    /\ opened >= 2
    /\ hist.recv = "closed"
    /\ ~hist.reset
    /\ lastCall.et \in {"ADDED", "MODIFIED"}
    /\ lastCall.object = hist.seen
    /\ optsRV = hist.seen.rv
    /\ optsRV = MaxRV

\* C27: the wait of prepare ends with success only on a created or updated
\* event; a deleted event never ends it with success.
C27_ReadyOnlyOnCreatedOrUpdated ==
    (fn = "prepare" /\ wpc = "return" /\ result = "ok")
      => lastCall.et \in {"ADDED", "MODIFIED"}

\* C30: with no initial object and a callback that returns nil for an error
\* event, an error event resets the cursor to "0" and the loop resubscribes.
C30_ErrorWithoutInitial ==
    [][(initial = NilVMI /\ RecvStep /\ ch # <<>> /\ Head(ch).type = "ERROR"
          /\ Len(rets') = Len(rets) + 1 /\ lastCall'.ret = "nil")
         => (result' = "none" /\ wpc' = "subscribe" /\ Cursor' = RVResync)]_vars

\* ------------------------------------------------------------------------
\* Claims about the stages (continued)

\* The last request of the process.
LastReq == reqs[Len(reqs)]

\* C26: run dials only when the instance it located is in phase Running and
\* its first interface has an address, and it dials that address; when the
\* instance located is not Running or its first interface has no address,
\* run ends with an error at once: the lookup is its only request, nothing
\* is dialled, uploaded or executed.
C26_DialOnlyRunningFirstAddress ==
    /\ [][(invoked' = "run" /\ Len(reqs') > Len(reqs) /\ LastReq'.op = "dial")
            => /\ lvm = found.vm
               /\ lvm.phase = "Running"
               /\ Len(lvm.ifaces) >= 1 /\ lvm.ifaces[1] # ""
               /\ LastReq'.ok => dialled'.ip = lvm.ifaces[1]]_vars
    /\ [][(nInv' = nInv + 1 /\ invoked' = "run" /\ reqs' = <<Req("list", TRUE)>>)
            => LET labelled == { v \in cp : v.label = JobID }
               IN  \A v \in labelled :
                      (labelled = {v}
                         /\ (v.phase # "Running" \/ v.ifaces = <<>> \/ v.ifaces[1] = ""))
                        => /\ stage' = "none"
                           /\ lastExit'.class = "system"
                           /\ lastExit'.err # NoErr
                           /\ dialled' = NoDial]_vars
    /\ [](invoked = "run" /\ Ops("dial") = {}
            => Ops("upload") = {} /\ Ops("exec") = {})

\* run has dialled the first address of a Running instance that has two.
C26_Witness ==
    /\ invoked = "run" /\ stage = "run"
    /\ Len(reqs) >= 2 /\ reqs[2] = Req("dial", TRUE)
    /\ lvm.phase = "Running"
    /\ lvm.ifaces = <<"10.0.0.1", "10.0.0.2">>
    /\ dialled.ip = "10.0.0.1"

\* run has ended with an error, the lookup its only request, for a Running
\* instance whose first interface has no address.
C26_WitnessNoAddress ==
    /\ invoked = "run" /\ stage = "none"
    /\ reqs = <<Req("list", TRUE)>>
    /\ lastExit.err = Err("NoIP")
    /\ \E v \in cp : v.phase = "Running" /\ v.ifaces = <<"", "10.0.0.2">>

\* The instances that carry the job's identity.
Labelled == { v \in cp : v.label = JobID }

\* A cleanup process starts in this step, its List call succeeds and no skip
\* predicate applies.
CleanupLooksUp ==
    /\ nInv' = nInv + 1
    /\ invoked' = "cleanup"
    /\ reqs' = <<Req("list", TRUE)>>
    /\ ~(stage' = "none" /\ lastExit'.class = "success")

\* C28: when prepare has created an instance, a later cleanup whose lookup
\* is answered and that no skip predicate stops goes on to the delete
\* request for that instance: every instance of the job is the one cleanup
\* is about to delete.
C28_CreatedInstanceIsDeleted ==
    [][(CleanupLooksUp /\ Labelled # {})
         => /\ stage' = "cleanup" /\ pc' = "c_delete"
            /\ \A v \in Labelled : lvm'.name = v.name]_vars

\* With one instance of the identity, the only one prepare created since
\* the last cleanup, cleanup goes on to the delete request for it, and the
\* delete is the next request of the process, by the name of that instance.
SoleInstanceIsDeleted ==
    /\ [][(CleanupLooksUp /\ Cardinality(Labelled) = 1)
            => /\ stage' = "cleanup" /\ pc' = "c_delete"
               /\ \A v \in Labelled : lvm' = v]_vars
    /\ [][(stage = "cleanup" /\ pc = "c_delete" /\ <<stage, pc>>' # <<stage, pc>>)
            => /\ reqs' = Append(reqs, Req("delete", pc' = "c_watch"))
               /\ pc' = "c_watch"
                    => \A v \in cp' : v.name = lvm.name => v.deleting]_vars
    /\ [](invoked = "cleanup" /\ stage = "none" /\ Len(reqs) = 1 /\ reqs[1].ok
            => \/ lastExit.class = "success"
               \/ lastExit.err.kind \in {"Disappeared", "AmbiguousID"})

\* ------------------------------------------------ the deadlines of a stage
\* Time is counted in units from the start of the stage process. A context
\* made by context.WithTimeout is its deadline; a call that takes a context
\* is recorded with the index of the context in ckCtxs, the time of the
\* call and, once it has returned, the time and the result.
Call(ctx, at) == [ctx |-> ctx, at |-> at, end |-> -1, result |-> "none"]

Return(call, at, r) == [call EXCEPT !.end = at, !.result = r]

\* The context has expired: ctx.Done() is closed.
Expired(ctx) == ckNow >= ckCtxs[ctx]

\* src/run.go:660-663: timeout, stop := context.WithTimeout(ctx, cmd.Timeout)
\* and the call WatchJobVM(timeout, ...).
PrepareWithTimeout ==
    /\ ckStage.stage = "prepare" /\ ckpc = "start"
    /\ ckCtxs' = Append(ckCtxs, ckNow + ckStage.timeout)
    /\ ckWatch' = <<Call(Len(ckCtxs) + 1, ckNow)>>
    /\ ckpc' = "watch"
    /\ UNCHANGED <<ckStage, ckNow, ckDial>>
    /\ UNCHANGED <<watchVars, digestVars, readyVars, lifeVars, exitVars, dialVars,
                   createVars, argvVars, logVars>>

\* src/run.go:663-691: WatchJobVM returns. With the deadline's error prepare
\* returns; with success it calls DialSSH(timeout, ...), timeout being the
\* context WatchJobVM was given. (The select of WatchJobVM may still take
\* an event after the deadline.)
PrepareWatchReturns ==
    /\ ckStage.stage = "prepare" /\ ckpc = "watch"
    /\ \/ /\ Expired(ckWatch[1].ctx)
          /\ ckWatch' = <<Return(ckWatch[1], ckNow, "DeadlineExceeded")>>
          /\ ckpc' = "done"
          /\ UNCHANGED ckDial
       \/ /\ ckWatch' = <<Return(ckWatch[1], ckNow, "ok")>>
          /\ ckDial' = <<Call(ckWatch[1].ctx, ckNow)>>
          /\ ckpc' = "dial"
    /\ UNCHANGED <<ckStage, ckNow, ckCtxs>>
    /\ UNCHANGED <<watchVars, digestVars, readyVars, lifeVars, exitVars, dialVars,
                   createVars, argvVars, logVars>>

\* src/run.go:71-76: timeout, stop := context.WithTimeout(ctx, cmd.RetryTimeout)
\* and the call DialSSH(timeout, ...).
RunWithTimeout ==
    /\ ckStage.stage = "run" /\ ckpc = "start"
    /\ ckCtxs' = Append(ckCtxs, ckNow + ckStage.timeout)
    /\ ckDial' = <<Call(Len(ckCtxs) + 1, ckNow)>>
    /\ ckpc' = "dial"
    /\ UNCHANGED <<ckStage, ckNow, ckWatch>>
    /\ UNCHANGED <<watchVars, digestVars, readyVars, lifeVars, exitVars, dialVars,
                   createVars, argvVars, logVars>>

\* src/run.go:166-213: DialSSH returns: the error of its context at the top
\* of a turn once the context has expired, a client or an error of the
\* attempt before.
DialReturns ==
    /\ ckpc = "dial"
    /\ \E r \in IF Expired(ckDial[1].ctx) THEN {"DeadlineExceeded"}
                 ELSE {"client", "SSHError"} :
          ckDial' = <<Return(ckDial[1], ckNow, r)>>
    /\ ckpc' = "done"
    /\ UNCHANGED <<ckStage, ckNow, ckCtxs, ckWatch>>
    /\ UNCHANGED <<watchVars, digestVars, readyVars, lifeVars, exitVars, dialVars,
                   createVars, argvVars, logVars>>

\* Time passes while the stage runs.
Tick ==
    /\ ckpc \in {"start", "watch", "dial"}
    /\ ckNow < MaxTime
    /\ ckNow' = ckNow + 1
    /\ UNCHANGED <<ckStage, ckpc, ckCtxs, ckWatch, ckDial>>
    /\ UNCHANGED <<watchVars, digestVars, readyVars, lifeVars, exitVars, dialVars,
                   createVars, argvVars, logVars>>

InitClock ==
    /\ ckStage \in [stage : {"prepare", "run"}, timeout : 1..MaxTimeout]
    /\ ckpc = "start"
    /\ ckNow = 0
    /\ ckCtxs = <<>>
    /\ ckWatch = <<>>
    /\ ckDial = <<>>
    /\ WatchIdle
    /\ DigestIdle
    /\ ReadyIdle
    /\ LifeIdle
    /\ ExitIdle
    /\ DialIdle
    /\ CreateIdle
    /\ ArgvIdle
    /\ LogIdle

NextClock ==
    \/ PrepareWithTimeout
    \/ PrepareWatchReturns
    \/ RunWithTimeout
    \/ DialReturns
    \/ Tick

SpecClock == InitClock /\ [][NextClock]_vars

\* C23: the connection loop has a deadline of its own: the deadline of the
\* context DialSSH is given is a whole timeout after the call, whatever time
\* the readiness wait has taken, and the loop does not end on the deadline
\* before that.
C23_DistinctDeadlines ==
    ckDial # <<>>
      => /\ ckCtxs[ckDial[1].ctx] = ckDial[1].at + ckStage.timeout
         /\ ckDial[1].result = "DeadlineExceeded"
              => ckDial[1].end >= ckDial[1].at + ckStage.timeout

\* ------------------------------------------------------ generateShellArgv
\* A Go string is the sequence of its bytes; an argument vector is a
\* sequence of strings.

\* src/run.go:142: "$OutputEncoding = [console]::InputEncoding =
\* [console]::OutputEncoding = New-Object System.Text.UTF8Encoding\r\n".
EncodingSwitch ==
    <<36, 79, 117, 116, 112, 117, 116, 69, 110, 99, 111, 100, 105, 110,
      103, 32, 61, 32, 91, 99, 111, 110, 115, 111, 108, 101, 93, 58, 58,
      73, 110, 112, 117, 116, 69, 110, 99, 111, 100, 105, 110, 103, 32, 61,
      32, 91, 99, 111, 110, 115, 111, 108, 101, 93, 58, 58, 79, 117, 116,
      112, 117, 116, 69, 110, 99, 111, 100, 105, 110, 103, 32, 61, 32, 78,
      101, 119, 45, 79, 98, 106, 101, 99, 116, 32, 83, 121, 115, 116, 101,
      109, 46, 84, 101, 120, 116, 46, 85, 84, 70, 56, 69, 110, 99, 111,
      100, 105, 110, 103, 13, 10>>

\* src/run.go:144: "exit $LASTEXITCODE\r\n".
ExitPropagation ==
    <<101, 120, 105, 116, 32, 36, 76, 65, 83, 84, 69, 88, 73, 84, 67, 79,
      68, 69, 13, 10>>

\* "\r\n" and " ".
CRLF == <<13, 10>>

Space == <<32>>

\* The bytes of a string literal of generateShellArgv.
Literal(str) ==
    CASE str = "bash" -> <<98, 97, 115, 104>>
      [] str = "pwsh" -> <<112, 119, 115, 104>>
      [] str = "cmd" -> <<99, 109, 100>>
      [] str = "-NoProfile" -> <<45, 78, 111, 80, 114, 111, 102, 105, 108, 101>>
      [] str = "-NoLogo" -> <<45, 78, 111, 76, 111, 103, 111>>
      [] str = "-InputFormat" -> <<45, 73, 110, 112, 117, 116, 70, 111, 114, 109, 97, 116>>
      [] str = "-OutputFormat" -> <<45, 79, 117, 116, 112, 117, 116, 70, 111, 114, 109, 97, 116>>
      [] str = "text" -> <<116, 101, 120, 116>>
      [] str = "-NonInteractive"
           -> <<45, 78, 111, 110, 73, 110, 116, 101, 114, 97, 99, 116, 105, 118, 101>>
      [] str = "-ExecutionPolicy"
           -> <<45, 69, 120, 101, 99, 117, 116, 105, 111, 110, 80, 111, 108, 105, 99, 121>>
      [] str = "Bypass" -> <<66, 121, 112, 97, 115, 115>>
      [] str = "-EncodedCommand"
           -> <<45, 69, 110, 99, 111, 100, 101, 100, 67, 111, 109, 109, 97, 110, 100>>

\* The replacement character U+FFFD, utf8.RuneError.
RuneError == 65533

\* A continuation byte of UTF-8.
Cont(b) == b \in 128..191

\* utf8.DecodeRune on the bytes of s from position i: the code point and
\* the number of bytes it takes; RuneError and 1 for a byte that does not
\* begin a valid encoding (a stray or truncated sequence, an overlong form, a
\* surrogate, a value above U+10FFFF).
DecodeRune(s, i) ==
    LET b0 == s[i]
        n == Len(s) - i + 1
    IN  IF b0 < 128 THEN [r |-> b0, size |-> 1]
        ELSE IF b0 \in 194..223 /\ n >= 2 /\ Cont(s[i + 1])
        THEN [r |-> (b0 - 192) * 64 + (s[i + 1] - 128), size |-> 2]
        ELSE IF /\ b0 \in 224..239 /\ n >= 3
                /\ s[i + 1] \in (IF b0 = 224 THEN 160 ELSE 128)..(IF b0 = 237 THEN 159 ELSE 191)
                /\ Cont(s[i + 2])
        THEN [r |-> (b0 - 224) * 4096 + (s[i + 1] - 128) * 64 + (s[i + 2] - 128),
              size |-> 3]
        ELSE IF /\ b0 \in 240..244 /\ n >= 4
                /\ s[i + 1] \in (IF b0 = 240 THEN 144 ELSE 128)..(IF b0 = 244 THEN 143 ELSE 191)
                /\ Cont(s[i + 2]) /\ Cont(s[i + 3])
        THEN [r |-> (b0 - 240) * 262144 + (s[i + 1] - 128) * 4096
                      + (s[i + 2] - 128) * 64 + (s[i + 3] - 128),
              size |-> 4]
        ELSE [r |-> RuneError, size |-> 1]

\* The sequences of ss, one after the other.
RECURSIVE Flatten(_)
Flatten(ss) ==
    IF Len(ss) = 0 THEN <<>>
    ELSE IF Len(ss) = 1 THEN ss[1]
    ELSE LET m == Len(ss) \div 2
         IN  Flatten(SubSeq(ss, 1, m)) \o Flatten(SubSeq(ss, m + 1, Len(ss)))

\* The byte at position i of s belongs to the encoding that begins at one of
\* the three bytes before it (a byte that begins an encoding is never a
\* continuation byte, so it belongs to no other).
Consumed(s, i) ==
    \E d \in 1..3 : i - d >= 1 /\ ~Cont(s[i - d]) /\ DecodeRune(s, i - d).size > d

\* The code points the encoder reads from s, decoding from the left: an
\* invalid byte is read as U+FFFD.
Runes(s) ==
    Flatten([i \in 1..Len(s) |->
                IF Consumed(s, i) THEN <<>> ELSE <<DecodeRune(s, i).r>>])

\* The UTF-16 code units of a code point: itself, or a surrogate pair.
Utf16Units(r) ==
    IF r <= 65535 THEN <<r>>
    ELSE <<55296 + ((r - 65536) \div 1024), 56320 + ((r - 65536) % 1024)>>

\* The encoder with the bytes of each code unit in big-endian order.
Utf16BE(runes) ==
    Flatten([k \in 1..Len(runes) |->
                LET u == Utf16Units(runes[k])
                IN  IF Len(u) = 1 THEN <<u[1] \div 256, u[1] % 256>>
                    ELSE <<u[1] \div 256, u[1] % 256, u[2] \div 256, u[2] % 256>>])

\* src/run.go:139: unicode.UTF16(unicode.LittleEndian, unicode.IgnoreBOM):
\* each code unit is written low byte first, and no byte order mark.
Utf16LE(runes) ==
    Flatten([k \in 1..Len(runes) |->
                LET u == Utf16Units(runes[k])
                IN  IF Len(u) = 1 THEN <<u[1] % 256, u[1] \div 256>>
                    ELSE <<u[1] % 256, u[1] \div 256, u[2] % 256, u[2] \div 256>>])

\* src/run.go:145: encoder.String(s).
EncoderString(s) == Utf16LE(Runes(s))

\* The alphabet of base64.StdEncoding, and its padding character "=".
StdAlphabet ==
    <<65, 66, 67, 68, 69, 70, 71, 72, 73, 74, 75, 76, 77, 78, 79, 80, 81,
      82, 83, 84, 85, 86, 87, 88, 89, 90, 97, 98, 99, 100, 101, 102, 103,
      104, 105, 106, 107, 108, 109, 110, 111, 112, 113, 114, 115, 116, 117,
      118, 119, 120, 121, 122, 48, 49, 50, 51, 52, 53, 54, 55, 56, 57, 43,
      47>>

StdPadding == 61

\* The characters for the bytes of b from position i on, three at most: three
\* bytes give four characters, one or two bytes at the end give two or three
\* characters and padding.
Quantum(b, i) ==
    LET n == Len(b) - i + 1
        c(v) == StdAlphabet[v + 1]
    IN  IF n = 1
        THEN <<c(b[i] \div 4), c((b[i] % 4) * 16), StdPadding, StdPadding>>
        ELSE IF n = 2
        THEN <<c(b[i] \div 4), c((b[i] % 4) * 16 + (b[i + 1] \div 16)),
               c((b[i + 1] % 16) * 4), StdPadding>>
        ELSE <<c(b[i] \div 4), c((b[i] % 4) * 16 + (b[i + 1] \div 16)),
               c((b[i + 1] % 16) * 4 + (b[i + 2] \div 64)), c(b[i + 2] % 64)>>

\* src/run.go:159: base64.StdEncoding.EncodeToString(b).
EncodeToString(b) ==
    Flatten([k \in 1..((Len(b) + 2) \div 3) |-> Quantum(b, 3 * k - 2)])

\* src/run.go:131-164: the argument vector for a shell and a script, or the
\* panic for a shell that is neither bash nor pwsh.
generateShellArgv(shell, script) ==
    IF shell = "bash" THEN [kind |-> "argv", argv |-> <<Literal("bash"), script>>]
    ELSE IF shell = "pwsh"
    THEN LET sb == EncodingSwitch \o (Literal(shell) \o Space \o script \o CRLF)
                     \o ExitPropagation
             encoded == EncoderString(sb)
         IN  [kind |-> "argv",
              argv |-> <<Literal("pwsh"), Literal("-NoProfile"), Literal("-NoLogo"),
                         Literal("-InputFormat"), Literal("text"),
                         Literal("-OutputFormat"), Literal("text"),
                         Literal("-NonInteractive"),
                         Literal("-ExecutionPolicy"), Literal("Bypass"),
                         Literal("-EncodedCommand"), EncodeToString(encoded)>>]
    ELSE [kind |-> "panic", argv |-> <<>>]

\* The pieces script paths are made of: "a", ".", U+00E9 and U+1F600 in
\* UTF-8, and two that are not valid UTF-8: the byte FF, and the first byte
\* of U+00E9 alone.
PathPieces ==
    { <<97>>, <<46>>, <<195, 169>>, <<240, 159, 152, 128>>, <<255>>, <<195>> }

\* The script paths: up to MaxPieces pieces.
ScriptPaths == { Flatten(ps) : ps \in SeqsUpTo(PathPieces, MaxPieces) }

\* generateShellArgv is called.
ArgvCall ==
    /\ avOut = <<>>
    /\ avOut' = <<generateShellArgv(avIn.shell, avIn.script)>>
    /\ UNCHANGED avIn
    /\ UNCHANGED <<watchVars, digestVars, readyVars, lifeVars, exitVars, dialVars,
                   createVars, clockVars, logVars>>

InitArgv ==
    /\ avIn \in [shell : {"bash", "pwsh", "cmd"}, script : ScriptPaths]
    /\ avOut = <<>>
    /\ WatchIdle
    /\ DigestIdle
    /\ ReadyIdle
    /\ LifeIdle
    /\ ExitIdle
    /\ DialIdle
    /\ CreateIdle
    /\ ClockIdle
    /\ LogIdle

NextArgv == ArgvCall

SpecArgv == InitArgv /\ [][NextArgv]_vars

\* The value of a character of the base64 alphabet.
StdValue(char) == (CHOOSE k \in 1..64 : StdAlphabet[k] = char) - 1

\* The bytes of four characters of base64, those of str from position i on.
Base64Quantum(str, i) ==
    LET v1 == StdValue(str[i])
        v2 == StdValue(str[i + 1])
    IN  IF str[i + 2] = StdPadding THEN <<v1 * 4 + (v2 \div 16)>>
        ELSE LET v3 == StdValue(str[i + 2])
             IN  IF str[i + 3] = StdPadding
                 THEN <<v1 * 4 + (v2 \div 16), (v2 % 16) * 16 + (v3 \div 4)>>
                 ELSE <<v1 * 4 + (v2 \div 16), (v2 % 16) * 16 + (v3 \div 4),
                        (v3 % 4) * 64 + StdValue(str[i + 3])>>

\* Base64 decoding.
Base64Decode(str) ==
    Flatten([k \in 1..(Len(str) \div 4) |-> Base64Quantum(str, 4 * k - 3)])

\* UTF-16 little-endian decoding to code points: a high surrogate and the
\* low surrogate after it are one code point.
Utf16LEDecode(b) ==
    LET units == [k \in 1..(Len(b) \div 2) |-> b[2 * k - 1] + 256 * b[2 * k]]
        high(k) == k \in DOMAIN units /\ units[k] \in 55296..56319
        low(k) == k \in DOMAIN units /\ units[k] \in 56320..57343
    IN  Flatten([k \in DOMAIN units |->
                    IF high(k) /\ low(k + 1)
                    THEN <<65536 + (units[k] - 55296) * 1024 + (units[k + 1] - 56320)>>
                    ELSE IF low(k) /\ high(k - 1) THEN <<>>
                    ELSE <<units[k]>>])

\* The UTF-8 bytes of a sequence of code points.
Utf8(runes) ==
    Flatten([k \in 1..Len(runes) |->
                LET r == runes[k]
                IN  IF r < 128 THEN <<r>>
                    ELSE IF r < 2048 THEN <<192 + (r \div 64), 128 + (r % 64)>>
                    ELSE IF r < 65536
                    THEN <<224 + (r \div 4096), 128 + ((r \div 64) % 64), 128 + (r % 64)>>
                    ELSE <<240 + (r \div 262144), 128 + ((r \div 4096) % 64),
                           128 + ((r \div 64) % 64), 128 + (r % 64)>>])

\* The script path is valid UTF-8: no byte of it is read as an invalid one.
ValidUTF8(s) == Utf8(Runes(s)) = s

\* The three lines for a script path: the switch of the encodings, the
\* interpreter on the script, the propagation of the exit code.
ThreeLines(script) ==
    EncodingSwitch \o Literal("pwsh") \o Space \o script \o CRLF \o ExitPropagation

\* What the last argument decodes to, as UTF-8.
Decoded(argv) == Utf8(Utf16LEDecode(Base64Decode(argv[Len(argv)])))

\* The arguments of the console shell before the encoded command.
ConsoleOptions ==
    <<Literal("pwsh"), Literal("-NoProfile"), Literal("-NoLogo"), Literal("-InputFormat"),
      Literal("text"), Literal("-OutputFormat"), Literal("text"), Literal("-NonInteractive"),
      Literal("-ExecutionPolicy"), Literal("Bypass"), Literal("-EncodedCommand")>>

\* C24, as stated: for the console shell the last argument, decoded from
\* base64 and then from UTF-16 little-endian, is exactly the three lines,
\* for every script path; for the POSIX shell the vector is the interpreter
\* and the script path.
C24_ArgvRoundTrip ==
    avOut # <<>>
      => /\ avIn.shell = "pwsh"
              => /\ avOut[1].kind = "argv"
                 /\ Decoded(avOut[1].argv) = ThreeLines(avIn.script)
         /\ avIn.shell = "bash"
              => avOut[1] = [kind |-> "argv", argv |-> <<Literal("bash"), avIn.script>>]

\* C24, amended: the same for every script path that is valid UTF-8; in a
\* path that is not, each invalid byte decodes to U+FFFD instead of itself.
\* The arguments before the last are the fixed options of the console shell.
C24_ArgvRoundTripValidText ==
    avOut # <<>>
      => /\ avIn.shell = "pwsh"
              => /\ avOut[1].kind = "argv"
                 /\ SubSeq(avOut[1].argv, 1, 11) = ConsoleOptions
                 /\ Len(avOut[1].argv) = 12
                 /\ ValidUTF8(avIn.script)
                      => Decoded(avOut[1].argv) = ThreeLines(avIn.script)
                 /\ Decoded(avOut[1].argv) = ThreeLines(Utf8(Runes(avIn.script)))
         /\ avIn.shell = "bash"
              => avOut[1] = [kind |-> "argv", argv |-> <<Literal("bash"), avIn.script>>]

\* The vector of the console shell has been generated for a path with a
\* character outside the basic plane, and decodes to the three lines.
C24_Witness ==
    /\ avOut # <<>>
    /\ avIn.shell = "pwsh"
    /\ avIn.script = <<97, 240, 159, 152, 128, 46>>
    /\ Decoded(avOut[1].argv) = ThreeLines(avIn.script)

\* ------------------------------------- the wait of cleanup and the history
\* The control plane keeps the changes of the instance in the order of their
\* resource versions; a subscription that names a resource version is sent
\* the changes after that version, the ones made before it was opened
\* first, one at a time.

\* The instance at a resource version.
InstanceAt(rv) == VMI(rv, "Running", <<"10.0.0.1">>, <<CondReadyFalse>>)

\* The resource version of the last change.
LastRV ==
    IF elog.events = <<>> THEN elog.base
    ELSE elog.events[Len(elog.events)].object.rv

\* The instance has been removed: its last change is the deletion.
Removed == elog.removedAt >= 0

RemovalRV == elog.events[Len(elog.events)].object.rv

\* The resource version the current subscription has been sent the changes
\* up to: the one it named when nothing has been sent on it yet.
Position == IF elog.sentSub = opened THEN elog.sent ELSE optsRV

\* The changes the current subscription has not been sent yet.
Pending == { k \in 1..Len(elog.events) : elog.events[k].object.rv > Position }

\* The instance changes: the deletion timestamp, a condition, the phase.
LogModify ==
    /\ ~Removed
    /\ Len(elog.events) < MaxLog
    /\ elog' = [elog EXCEPT !.events = Append(@, Event("MODIFIED", InstanceAt(LastRV + 1)))]
    /\ UNCHANGED watchVars
    /\ UNCHANGED <<digestVars, readyVars, lifeVars, exitVars, dialVars, createVars,
                   clockVars, argvVars>>

\* The control plane removes the instance; removedAt is the number of
\* subscriptions opened before that.
LogRemove ==
    /\ ~Removed
    /\ Len(elog.events) < MaxLog
    /\ elog' = [elog EXCEPT !.events = Append(@, Event("DELETED", InstanceAt(LastRV + 1))),
                            !.removedAt = opened]
    /\ UNCHANGED watchVars
    /\ UNCHANGED <<digestVars, readyVars, lifeVars, exitVars, dialVars, createVars,
                   clockVars, argvVars>>

\* The open subscription is sent the next change after its position.
LogDeliver ==
    /\ result = "none" /\ wpc = "select" /\ chOpen /\ ch = <<>>
    /\ optsRV # RVUnset
    /\ Pending # {}
    /\ LET k == CHOOSE k \in Pending : \A l \in Pending : k <= l
       IN  /\ ch' = <<elog.events[k]>>
           /\ elog' = [elog EXCEPT !.sent = elog.events[k].object.rv, !.sentSub = opened]
    /\ UNCHANGED <<wpc, fn, initial, optsRV, chOpen, opened, stopped, ctxDone,
                   result, vm, handled, rets, lastCall, hist, nEnv>>
    /\ UNCHANGED <<digestVars, readyVars, lifeVars, exitVars, dialVars, createVars,
                   clockVars, argvVars>>

\* src/cleanup.go:44-53: the delete request has been accepted and WatchJobVM
\* is called with the instance as FindJobVM located it.
InitGone ==
    /\ fn = "cleanup"
    /\ initial \in { InstanceAt(rv) : rv \in 1..MaxRV }
    /\ vm = NilVMI
    /\ wpc = "subscribe"
    /\ optsRV = RVUnset
    /\ ch = <<>>
    /\ chOpen = FALSE
    /\ opened = 0
    /\ stopped = 0
    /\ ctxDone = FALSE
    /\ result = "none"
    /\ handled = 0
    /\ rets = <<>>
    /\ lastCall = NoCall
    /\ hist = [seen |-> initial, recv |-> "none", reset |-> FALSE]
    /\ nEnv = 0
    /\ elog = [NoLog EXCEPT !.base = initial.rv]
    /\ DigestIdle
    /\ ReadyIdle
    /\ LifeIdle
    /\ ExitIdle
    /\ DialIdle
    /\ CreateIdle
    /\ ClockIdle
    /\ ArgvIdle

NextGone ==
    \/ WSubscribe
    \/ WRecv
    \/ WTimeout
    \/ EnvClose
    \/ EnvExpire
    \/ LogModify
    \/ LogRemove
    \/ LogDeliver

SpecGone == InitGone /\ [][NextGone]_vars

\* The loop of WatchJobVM goes on, and the control plane sends what it has.
SpecGoneFair ==
    /\ SpecGone
    /\ WF_vars(WSubscribe)
    /\ WF_vars(WRecv)
    /\ WF_vars(LogDeliver)

\* C29: the wait of cleanup starts from the resource version of the instance
\* as located; a subscription opened after the removal of the instance, the
\* first one or one that follows a closed channel, starts from a version
\* before the removal, and while the wait goes on the cursor is before the
\* removal, so that the deletion event is still to come; once the instance
\* is removed the wait ends, with success on the deletion event unless the
\* deadline has expired or a subscription request has failed.
C29_RemovalNotMissed ==
    /\ [][(opened = 0 /\ opened' = 1) => optsRV' = elog.base]_vars
    /\ [][(opened' = opened + 1 /\ Removed) => optsRV' < RemovalRV]_vars
    /\ []((Removed /\ result = "none") => Cursor < RemovalRV)
    /\ [](result = "ok"
            => /\ Removed
               /\ lastCall = [et |-> "DELETED", object |-> InstanceAt(RemovalRV),
                              ret |-> "ErrWatchDone"])
    /\ [](result = "DeadlineExceeded" => ctxDone)
    /\ Removed ~> (wpc = "return")
    /\ Removed ~> (result \in {"ok", "WatchError"} \/ ctxDone)

\* The instance was removed before the first subscription was opened, after
\* another change, and the wait has ended with success on the deletion
\* event.
C29_Witness ==
    /\ elog.removedAt = 0
    /\ Len(elog.events) >= 2
    /\ wpc = "return"
    /\ result = "ok"
    /\ ~ctxDone
    /\ lastCall.et = "DELETED"

\* The instance was removed while the channel was closed, and the wait has
\* ended with success on the deletion event after a resubscription.
C29_WitnessResubscribed ==
    /\ elog.removedAt >= 1
    /\ elog.sentSub > elog.removedAt
    /\ hist.recv = "object"
    /\ result = "ok"
    /\ lastCall.et = "DELETED"

====
